---------------------------- MODULE Spec2Model ----------------------------
(***************************************************************************)
(* A model of the Sudoku generator/solver: PuzzleGrid (puzzle_grid.py) and *)
(* BruteForceSolver (solver.py).                                           *)
(*                                                                         *)
(* A PuzzleGrid object is a record of its cell matrix and its three        *)
(* "definite value" indices.  Every method is an operator that returns the *)
(* object as the call leaves it together with the exception it raised (""  *)
(* when it returned normally), statement by statement as in the source.    *)
(***************************************************************************)
EXTENDS Integers, Sequences, FiniteSets, TLC

VARIABLES
    grid,                \* the PuzzleGrid under test (self)
    call,                \* the last public call made on it and its arguments
    exc,                 \* the GridException that call raised, "" if none
    ret,                 \* what the last call returned (None while it runs)
    pre,                 \* the grid as it was when the running call began
    pc,                  \* where the running call stands ("idle" between calls)
    index,               \* the index argument of the recursive call being entered
    stack,               \* the frames of the recursive calls that are in their loop
    options,             \* BruteForceSolver.options (None while no solver exists)
    solved_puzzle,       \* BruteForceSolver.solved_puzzle
    required_spaces,     \* PuzzleGrid.required_spaces
    solver_callback,     \* PuzzleGrid.solver_callback: the cells it refuses to see blank
    grid_with_spaces,    \* PuzzleGrid.grid_with_spaces
    max_spaces_per_box,  \* PuzzleGrid.max_spaces_per_box
    min_spaces_per_box,  \* PuzzleGrid.min_spaces_per_box
    space_failure_count, \* PuzzleGrid.space_failure_count
    space_markers,       \* the shuffled list of SpaceMarkers of the running add_spaces
    space_count,         \* the space_count argument of the recursive call being entered
    approved,            \* the cell matrix the callback last answered True for
    rng,                 \* the state of the random number stream
    row,                 \* the row (y) _attempt_populate_cells is working on
    redo_count,          \* redo_count of populate_cells
    row_redo_count,      \* redo_count of _attempt_populate_cells
    column,              \* the column (x) the loop over the row has reached
    row_options,         \* row_options of _attempt_populate_cells
    grid_tries,          \* how many times populate_cells called _attempt_populate_cells
    failed_tries,        \* how many of those calls returned False
    row_tries,           \* per row, how many times the running attempt tried it
    puzzle_args,         \* the arguments of the generate_puzzle call (None before it)
    _try,                \* the loop variable _try of generate_puzzle
    puzzle_ret,          \* what generate_puzzle returned (None until it has)
    caller_list          \* the list object a caller passed to populate_from_list

gridVars == <<grid, call, exc>>

callVars == <<ret, pre, pc, index, stack>>

solverVars == <<options, solved_puzzle>>

spaceVars ==
    <<required_spaces, solver_callback, grid_with_spaces, max_spaces_per_box,
      min_spaces_per_box, space_failure_count, space_markers, space_count, approved>>

fillVars ==
    <<rng, row, redo_count, row_redo_count, column, row_options, grid_tries, failed_tries, row_tries>>

puzzleVars == <<puzzle_args, _try, puzzle_ret>>

vars == <<grid, call, exc, ret, pre, pc, index, stack, options, solved_puzzle, spaceVars, fillVars,
          puzzleVars, caller_list>>

\* A Python Optional is a sequence of at most one element: None is the empty one
None == <<>>

Some(v) == <<v>>

---------------------------------------------------------------------------
(* Class constants of PuzzleGrid *)

NUM_ROWS == 9

NUM_COLUMNS == 9

BOX_SIZE == 3

NUM_BOXES_Y == NUM_ROWS \div BOX_SIZE

NUM_BOXES_X == NUM_COLUMNS \div BOX_SIZE

possible_values == 1..9

Rows == 0..(NUM_ROWS - 1)

Columns == 0..(NUM_COLUMNS - 1)

BoxRows == 0..(NUM_BOXES_Y - 1)

BoxColumns == 0..(NUM_BOXES_X - 1)

(* The messages of the GridExceptions the grid raises *)
NoException == ""

BadCoordinates == "Bad coordinates"

BadValue == "Bad value"

BoxTwice == "Cell value in box twice"

RowTwice == "Cell value in row twice"

ColumnTwice == "Cell value in column twice"

DuplicateInGroup == {BoxTwice, RowTwice, ColumnTwice}

---------------------------------------------------------------------------
(* PuzzleGrid *)

\* reset(): a blank matrix and empty index sets
reset ==
    [cells |-> [y \in Rows |-> [x \in Columns |-> 0]],
     definite_values_per_row |-> [y \in Rows |-> {}],
     definite_values_per_column |-> [x \in Columns |-> {}],
     definite_values_per_box |-> [by \in BoxRows |-> [bx \in BoxColumns |-> {}]]]

InRange(x, y) == x >= 0 /\ x < NUM_COLUMNS /\ y >= 0 /\ y < NUM_ROWS

\* get_box_coordinates(cell_x, cell_y), for coordinates in range
get_box_coordinates(cell_x, cell_y) == <<cell_x \div BOX_SIZE, cell_y \div BOX_SIZE>>

box_definites(g, x, y) ==
    g.definite_values_per_box[get_box_coordinates(x, y)[2]][get_box_coordinates(x, y)[1]]

\* get_value(x, y), for coordinates in range
get_value(g, x, y) == g.cells[y][x]

\* The three discards of set_value(x, y, 0) on a filled cell
DiscardExisting(g, x, y) ==
    LET existing_val == get_value(g, x, y)
        b == get_box_coordinates(x, y)
    IN  [g EXCEPT !.definite_values_per_box[b[2]][b[1]] = @ \ {existing_val},
                  !.definite_values_per_row[y] = @ \ {existing_val},
                  !.definite_values_per_column[x] = @ \ {existing_val}]

\* The cell write of set_value: it precedes the duplicate checks
WriteCell(g, x, y, val) == [g EXCEPT !.cells[y][x] = val]

\* set_value(x, y, val): the grid as the call leaves it, and what it raised
\* A plausible slip: the upper bound is one too high
ValueOutOfRangeLoose(val) == val < 0 \/ val > 10

\* if val < 0 or val > 9
ValueOutOfRange(val) == val < 0 \/ val > 9

set_value(g, x, y, val) ==
    IF ~InRange(x, y) THEN [grid |-> g, exc |-> BadCoordinates]
    ELSE IF ValueOutOfRange(val) THEN [grid |-> g, exc |-> BadValue]
    ELSE
      LET b  == get_box_coordinates(x, y)
          g1 == IF val = 0 /\ get_value(g, x, y) > 0 THEN DiscardExisting(g, x, y) ELSE g
          g2 == WriteCell(g1, x, y, val)
          g3 == [g2 EXCEPT !.definite_values_per_box[b[2]][b[1]] = @ \cup {val}]
          g4 == [g3 EXCEPT !.definite_values_per_row[y] = @ \cup {val}]
          g5 == [g4 EXCEPT !.definite_values_per_column[x] = @ \cup {val}]
      IN  IF val = 0 THEN [grid |-> g2, exc |-> NoException]
          ELSE IF val \in box_definites(g2, x, y) THEN [grid |-> g2, exc |-> BoxTwice]
          ELSE IF val \in g3.definite_values_per_row[y] THEN [grid |-> g3, exc |-> RowTwice]
          ELSE IF val \in g4.definite_values_per_column[x] THEN [grid |-> g4, exc |-> ColumnTwice]
          ELSE [grid |-> g5, exc |-> NoException]

\* get_possible_values(x, y), for coordinates in range: <<is blank, candidates>>
get_possible_values(g, x, y) ==
    IF g.cells[y][x] > 0 THEN <<FALSE, {}>>
    ELSE <<TRUE, ((possible_values \ box_definites(g, x, y))
                    \ g.definite_values_per_row[y])
                    \ g.definite_values_per_column[x]>>

\* One turn of clear_row's loop: the cell (x, y)
\* A plausible slip: the digit stays in the set of its box
ClearCellKeepingBox(g, x, y) ==
    LET current_val == g.cells[y][x]
    IN  [g EXCEPT !.definite_values_per_row[y] = @ \ {current_val},
                  !.definite_values_per_column[x] = @ \ {current_val},
                  !.cells[y][x] = 0]

\* One turn of the loop of clear_row(y)
ClearCell(g, x, y) ==
    LET current_val == g.cells[y][x]
        b == get_box_coordinates(x, y)
    IN  [g EXCEPT !.definite_values_per_row[y] = @ \ {current_val},
                  !.definite_values_per_column[x] = @ \ {current_val},
                  !.definite_values_per_box[b[2]][b[1]] = @ \ {current_val},
                  !.cells[y][x] = 0]

RECURSIVE ClearRowFrom(_, _, _)
ClearRowFrom(g, y, x) ==
    IF x >= NUM_COLUMNS THEN g ELSE ClearRowFrom(ClearCell(g, x, y), y, x + 1)

\* clear_row(y)
clear_row(g, y) ==
    IF y < 0 \/ y >= NUM_ROWS THEN [grid |-> g, exc |-> BadCoordinates]
    ELSE [grid |-> ClearRowFrom(g, y, 0), exc |-> NoException]

\* The inner loop of copy(other), in row y from column x on: it ends at the
\* first set_value that raises
RECURSIVE CopyRow(_, _, _, _)
CopyRow(g, other, y, x) ==
    IF x >= NUM_COLUMNS THEN [grid |-> g, exc |-> NoException]
    ELSE LET r == set_value(g, x, y, get_value(other, x, y))
         IN  IF r.exc # NoException THEN r ELSE CopyRow(r.grid, other, y, x + 1)

\* The outer loop of copy(other), from row y on
RECURSIVE CopyRows(_, _, _)
CopyRows(g, other, y) ==
    IF y >= NUM_ROWS THEN [grid |-> g, exc |-> NoException]
    ELSE LET r == CopyRow(g, other, y, 0)
         IN  IF r.exc # NoException THEN r ELSE CopyRows(r.grid, other, y + 1)

\* copy(other), other a PuzzleGrid: self is reset, whatever it held
copy(other) == CopyRows(reset, other, 0)

\* A Python list of lists as a matrix indexed from 0
FromRows(rows) ==
    [y \in 0..(Len(rows) - 1) |-> [x \in 0..(Len(rows[y + 1]) - 1) |-> rows[y + 1][x + 1]]]

Len0(list) == Cardinality(DOMAIN list)

WrongNumberOfRows == "Wrong number of rows"

WrongNumberOfEntries == "Wrong number of entries in row"

BadCellValue == "Bad cell value"

\* The inner loop of populate_from_list, in row y from column x on;
\* self.cells is already the caller's list
RECURSIVE PopulateRow(_, _, _)
PopulateRow(g, y, x) ==
    IF x >= NUM_COLUMNS THEN [grid |-> g, exc |-> NoException]
    ELSE LET cell_val == g.cells[y][x]
         IN  IF cell_val < 0 \/ cell_val > 9 THEN [grid |-> g, exc |-> BadCellValue]
             ELSE IF cell_val > 0
                 THEN LET r == set_value(g, x, y, cell_val)
                      IN  IF r.exc # NoException THEN r
                          ELSE PopulateRow(r.grid, y, x + 1)
             ELSE PopulateRow(g, y, x + 1)

\* The outer loop of populate_from_list, from row y on
RECURSIVE PopulateRows(_, _, _)
PopulateRows(g, hard_coded, y) ==
    IF y >= NUM_ROWS THEN [grid |-> g, exc |-> NoException]
    ELSE IF Len0(hard_coded[y]) # NUM_COLUMNS
        THEN [grid |-> g, exc |-> WrongNumberOfEntries]
    ELSE LET r == PopulateRow(g, y, 0)
         IN  IF r.exc # NoException THEN r ELSE PopulateRows(r.grid, hard_coded, y + 1)

\* populate_from_list(hard_coded)
\* A plausible slip: the grid is not reset before the values are applied
populate_from_list_without_reset(g, hard_coded) ==
    IF Len0(hard_coded) # NUM_ROWS THEN [grid |-> g, exc |-> WrongNumberOfRows]
    ELSE PopulateRows([g EXCEPT !.cells = hard_coded], hard_coded, 0)

populate_from_list(g, hard_coded) ==
    IF Len0(hard_coded) # NUM_ROWS THEN [grid |-> g, exc |-> WrongNumberOfRows]
    ELSE PopulateRows([reset EXCEPT !.cells = hard_coded], hard_coded, 0)

---------------------------------------------------------------------------
(* What the grid's matrix holds, computed by scanning it *)

RowDigits(g, y) == {g.cells[y][x] : x \in Columns} \ {0}

ColumnDigits(g, x) == {g.cells[y][x] : y \in Rows} \ {0}

BoxCells(bx, by) ==
    {c \in Columns \X Rows : get_box_coordinates(c[1], c[2]) = <<bx, by>>}

BoxDigits(g, bx, by) == {g.cells[c[2]][c[1]] : c \in BoxCells(bx, by)} \ {0}

\* No non-zero digit twice among the cells cs (pairs <<x, y>>)
NoRepeat(g, cs) ==
    \A c, d \in cs : (c # d /\ g.cells[c[2]][c[1]] # 0) => g.cells[c[2]][c[1]] # g.cells[d[2]][d[1]]

GridValid(g) ==
    /\ \A y \in Rows : NoRepeat(g, {<<x, y>> : x \in Columns})
    /\ \A x \in Columns : NoRepeat(g, {<<x, y>> : y \in Rows})
    /\ \A by \in BoxRows : \A bx \in BoxColumns : NoRepeat(g, BoxCells(bx, by))

IndexConsistent(g) ==
    /\ \A y \in Rows : g.definite_values_per_row[y] = RowDigits(g, y)
    /\ \A x \in Columns : g.definite_values_per_column[x] = ColumnDigits(g, x)
    /\ \A by \in BoxRows : \A bx \in BoxColumns :
          g.definite_values_per_box[by][bx] = BoxDigits(g, bx, by)

\* The digits free for the blank cell (x, y) according to the matrix
FreeDigits(g, x, y) ==
    ((possible_values \ RowDigits(g, y)) \ ColumnDigits(g, x))
        \ BoxDigits(g, get_box_coordinates(x, y)[1], get_box_coordinates(x, y)[2])

---------------------------------------------------------------------------
(* The grid API driven by a caller *)

\* The set_value calls the caller makes: <<x, y, val>>, among them the ones
\* with a coordinate or a value out of range
SetValueCalls ==
    ({<<0, 0>>, <<1, 0>>, <<4, 0>>, <<0, 4>>} \X {0, 5})
        \cup {<<<<0, 0>>, 6>>}
        \cup {<<<<-1, 0>>, 5>>, <<<<9, 0>>, 5>>, <<<<0, 9>>, 5>>, <<<<0, 0>>, -1>>, <<<<0, 0>>, 10>>}

CallRows == {0, 4, 9}

Idle ==
    /\ ret = None
    /\ pre = reset
    /\ pc = "idle"
    /\ index = 0
    /\ stack = <<>>

NoSolver ==
    /\ options = None
    /\ solved_puzzle = None

\* The fields __init__ gives a PuzzleGrid for add_spaces
NoSpaces ==
    /\ required_spaces = 45
    /\ solver_callback = None
    /\ grid_with_spaces = None
    /\ max_spaces_per_box = 1000
    /\ min_spaces_per_box = 0
    /\ space_failure_count = 0
    /\ space_markers = <<>>
    /\ space_count = 0
    /\ approved = None

\* No list of a caller is followed
NoCallerList == caller_list = None

\* No call of generate_puzzle has been made
NoPuzzle ==
    /\ puzzle_args = None
    /\ _try = 0
    /\ puzzle_ret = None

NoFill ==
    /\ rng = 0
    /\ row = 0
    /\ redo_count = 0
    /\ row_redo_count = 0
    /\ column = 0
    /\ row_options = possible_values
    /\ grid_tries = 0
    /\ failed_tries = 0
    /\ row_tries = [r \in Rows |-> 0]

Init ==
    /\ grid = reset
    /\ call = [op |-> "__init__"]
    /\ exc = NoException
    /\ Idle
    /\ NoSolver
    /\ NoSpaces
    /\ NoPuzzle
    /\ NoCallerList
    /\ NoFill

Reset ==
    /\ grid' = reset
    /\ call' = [op |-> "reset"]
    /\ exc' = NoException
    /\ UNCHANGED <<callVars, solverVars, spaceVars, fillVars, puzzleVars, caller_list>>

SetValue ==
    \E a \in SetValueCalls :
        /\ grid' = set_value(grid, a[1][1], a[1][2], a[2]).grid
        /\ exc' = set_value(grid, a[1][1], a[1][2], a[2]).exc
        /\ call' = [op |-> "set_value", x |-> a[1][1], y |-> a[1][2], val |-> a[2]]
        /\ UNCHANGED <<callVars, solverVars, spaceVars, fillVars, puzzleVars, caller_list>>

ClearRow ==
    \E y \in CallRows :
        /\ grid' = clear_row(grid, y).grid
        /\ exc' = clear_row(grid, y).exc
        /\ call' = [op |-> "clear_row", y |-> y]
        /\ UNCHANGED <<callVars, solverVars, spaceVars, fillVars, puzzleVars, caller_list>>

Next == Reset \/ SetValue \/ ClearRow

Spec == Init /\ [][Next]_vars

---------------------------------------------------------------------------
(* C1: in every reachable grid state, the state a failed call leaves       *)
(* behind included, no row, column or box of the cell matrix holds the     *)
(* same non-zero digit twice.                                              *)
C1_GridValidity == GridValid(grid)

(* C2: in every reachable grid state, for every blank cell                 *)
(* get_possible_values returns exactly the digits that occur nowhere in    *)
(* the cell's row, column and box of the matrix, and every index set       *)
(* equals the non-zero digits stored in its group.                         *)
C2_IndexConsistency ==
    /\ IndexConsistent(grid)
    /\ \A y \in Rows : \A x \in Columns :
          grid.cells[y][x] = 0 =>
              get_possible_values(grid, x, y) = <<TRUE, FreeDigits(grid, x, y)>>

(* C3: a set_value that fails with a duplicate-in-group GridException      *)
(* leaves the cell it was called on with the value it held before the call *)
(* and leaves every row, column and box index set unchanged.               *)
C3_DuplicateRejectionLeavesGridUntouched ==
    [][(call'.op = "set_value" /\ exc' \in DuplicateInGroup) =>
          /\ grid'.cells[call'.y][call'.x] = grid.cells[call'.y][call'.x]
          /\ grid'.definite_values_per_row = grid.definite_values_per_row
          /\ grid'.definite_values_per_column = grid.definite_values_per_column
          /\ grid'.definite_values_per_box = grid.definite_values_per_box]_vars

---------------------------------------------------------------------------
(* BruteForceSolver *)

\* The table __init__ builds: the candidates of every cell of the grid
SolverOptions(g) ==
    [y \in Rows |-> [x \in Columns |-> get_possible_values(g, x, y)[2]]]

\* BruteForceSolver.set_value(x, y, val): the cell's entry of the table is
\* cleared, the grid written, and the entry refilled when the cell was blanked
solver_set_value(g, opts, x, y, val) ==
    LET r == set_value(g, x, y, val)
        cleared == [opts EXCEPT ![y][x] = {}]
    IN  IF r.exc = NoException /\ val = 0
        THEN [grid |-> r.grid, exc |-> r.exc,
              options |-> [cleared EXCEPT ![y][x] = get_possible_values(r.grid, x, y)[2]]]
        ELSE [grid |-> r.grid, exc |-> r.exc, options |-> cleared]

\* _index_to_coordinate(index): <<column, row>>
index_to_coordinate(i) == <<i % NUM_COLUMNS, i \div NUM_COLUMNS>>

\* The frame of a _solve_impl call that is in its loop over the candidates
SolveFrame(i, opts) == [index |-> i, todo |-> opts, success_count |-> 0]

Top == stack[Len(stack)]

Pop == SubSeq(stack, 1, Len(stack) - 1)

\* BruteForceSolver(grid)
NewSolver ==
    /\ pc = "idle"
    /\ options = None
    /\ options' = Some(SolverOptions(grid))
    /\ solved_puzzle' = None
    /\ call' = [op |-> "BruteForceSolver"]
    /\ exc' = NoException
    /\ ret' = None
    /\ UNCHANGED <<grid, pre, pc, index, stack, spaceVars, fillVars, puzzleVars, caller_list>>

\* solve(): success_count = self._solve_impl(0)
SolveCall ==
    /\ pc = "idle"
    /\ options # None
    /\ pc' = "enter"
    /\ index' = 0
    /\ stack' = <<>>
    /\ pre' = grid
    /\ ret' = None
    /\ call' = [op |-> "solve"]
    /\ exc' = NoException
    /\ UNCHANGED <<grid, solverVars, spaceVars, fillVars, puzzleVars, caller_list>>

\* _solve_impl, index past the last cell: the grid is captured, 1 is returned
\* A plausible slip: only the first solution found is captured
CaptureFirst(captured, g) ==
    IF captured = None THEN copy(g) ELSE [grid |-> captured[1], exc |-> NoException]

\* self.solved_puzzle.copy(self.grid), on a new PuzzleGrid if there is none
Capture(captured, g) == copy(g)

SolveLeaf ==
    /\ pc = "enter"
    /\ call.op = "solve"
    /\ index >= NUM_ROWS * NUM_COLUMNS
    /\ LET r == Capture(solved_puzzle, grid)
       IN  /\ solved_puzzle' = Some(r.grid)
           /\ exc' = r.exc
           /\ IF r.exc = NoException
              THEN pc' = "return" /\ ret' = Some(1) /\ stack' = stack
              ELSE pc' = "idle" /\ ret' = None /\ stack' = <<>>
    /\ UNCHANGED <<grid, call, pre, index, options, spaceVars, fillVars, puzzleVars, caller_list>>

\* _solve_impl on a blank cell with no candidate: 0 is returned
SolveDead ==
    /\ pc = "enter"
    /\ call.op = "solve"
    /\ index < NUM_ROWS * NUM_COLUMNS
    /\ LET c == index_to_coordinate(index)
           p == get_possible_values(grid, c[1], c[2])
       IN  p[1] /\ p[2] = {}
    /\ pc' = "return"
    /\ ret' = Some(0)
    /\ UNCHANGED <<grid, call, exc, pre, index, stack, solverVars, spaceVars, fillVars, puzzleVars, caller_list>>

\* _solve_impl on a filled cell: return self._solve_impl(index + 1)
SolveFilled ==
    /\ pc = "enter"
    /\ call.op = "solve"
    /\ index < NUM_ROWS * NUM_COLUMNS
    /\ LET c == index_to_coordinate(index)
       IN  ~get_possible_values(grid, c[1], c[2])[1]
    /\ index' = index + 1
    /\ UNCHANGED <<grid, call, exc, ret, pre, pc, stack, solverVars, spaceVars, fillVars, puzzleVars, caller_list>>

\* _solve_impl on a blank cell with candidates: the loop over them begins
SolveBranch ==
    /\ pc = "enter"
    /\ call.op = "solve"
    /\ index < NUM_ROWS * NUM_COLUMNS
    /\ LET c == index_to_coordinate(index)
           p == get_possible_values(grid, c[1], c[2])
       IN  /\ p[1] /\ p[2] # {}
           /\ stack' = Append(stack, SolveFrame(index, p[2]))
    /\ pc' = "loop"
    /\ UNCHANGED <<grid, call, exc, ret, pre, index, solverVars, spaceVars, fillVars, puzzleVars, caller_list>>

\* The write of one turn of the loop
TryWrite(g, opts, x, y, val) == solver_set_value(g, opts, x, y, val)

\* One turn of the loop: the next candidate (a set is iterated in no given
\* order) is written and the search recurses to the next cell
SolveTry ==
    /\ pc = "loop"
    /\ call.op = "solve"
    /\ \E val \in Top.todo :
          LET c == index_to_coordinate(Top.index)
              r == TryWrite(grid, options[1], c[1], c[2], val)
          IN  /\ grid' = r.grid
              /\ options' = Some(r.options)
              /\ exc' = r.exc
              /\ IF r.exc = NoException
                 THEN /\ stack' = [stack EXCEPT ![Len(stack)].todo = @ \ {val}]
                      /\ pc' = "enter"
                      /\ index' = Top.index + 1
                 ELSE /\ stack' = <<>>
                      /\ pc' = "idle"
                      /\ index' = index
    /\ UNCHANGED <<call, ret, pre, solved_puzzle, spaceVars, fillVars, puzzleVars, caller_list>>

\* A plausible slip: the cell is left as written
UndoWriteForgotten(g, opts, x, y) == [grid |-> g, exc |-> NoException, options |-> opts]

\* A plausible slip: the count of the last turn replaces the sum
AccumulateLast(success_count, recursive_success_count) == recursive_success_count

\* The write that ends a turn of the loop, after the recursive call returned
UndoWrite(g, opts, x, y) == solver_set_value(g, opts, x, y, 0)

\* success_count += recursive_success_count
Accumulate(success_count, recursive_success_count) ==
    success_count + recursive_success_count

\* The recursive call of a turn returned: its count is added and the cell reset
SolveUndo ==
    /\ pc = "return"
    /\ call.op = "solve"
    /\ stack # <<>>
    /\ LET c == index_to_coordinate(Top.index)
           r == UndoWrite(grid, options[1], c[1], c[2])
       IN  /\ grid' = r.grid
           /\ options' = Some(r.options)
    /\ stack' = [stack EXCEPT ![Len(stack)].success_count = Accumulate(@, ret[1])]
    /\ pc' = "loop"
    /\ ret' = None
    /\ UNCHANGED <<call, exc, pre, index, solved_puzzle, spaceVars, fillVars, puzzleVars, caller_list>>

\* The loop has run through the candidates: return success_count
SolveLoopEnd ==
    /\ pc = "loop"
    /\ call.op = "solve"
    /\ Top.todo = {}
    /\ ret' = Some(Top.success_count)
    /\ stack' = Pop
    /\ pc' = "return"
    /\ UNCHANGED <<grid, call, exc, pre, index, solverVars, spaceVars, fillVars, puzzleVars, caller_list>>

\* solve() returns (success_count, self.solved_puzzle)
SolveReturn ==
    /\ pc = "return"
    /\ call.op = "solve"
    /\ stack = <<>>
    /\ ret' = <<ret[1], solved_puzzle>>
    /\ pc' = "idle"
    /\ UNCHANGED <<grid, call, exc, pre, index, stack, solverVars, spaceVars, fillVars, puzzleVars, caller_list>>

SolveSteps ==
    \/ SolveLeaf
    \/ SolveDead
    \/ SolveFilled
    \/ SolveBranch
    \/ SolveTry
    \/ SolveUndo
    \/ SolveLoopEnd
    \/ SolveReturn

---------------------------------------------------------------------------
(* A solver bound to a grid that its caller blanks and pencils between the *)
(* calls of solve()                                                        *)

\* sample_puzzle of solver.py with its blanks filled in (its one solution)
SolvedSample ==
    << <<8, 5, 3, 2, 9, 1, 7, 4, 6>>,
       <<9, 2, 7, 5, 6, 4, 1, 3, 8>>,
       <<1, 6, 4, 8, 7, 3, 5, 9, 2>>,
       <<2, 3, 9, 7, 5, 6, 8, 1, 4>>,
       <<6, 4, 5, 1, 8, 9, 2, 7, 3>>,
       <<7, 8, 1, 3, 4, 2, 6, 5, 9>>,
       <<3, 1, 8, 9, 2, 7, 4, 6, 5>>,
       <<5, 9, 6, 4, 1, 8, 3, 2, 7>>,
       <<4, 7, 2, 6, 3, 5, 9, 8, 1>> >>

SolvedGrid == populate_from_list(reset, FromRows(SolvedSample)).grid

\* The cells <<x, y>> the caller may blank: the four corners of a rectangle
\* that holds 8 3 / 3 8, and one more cell of row 0
SolverCells == {<<0, 0>>, <<2, 0>>, <<0, 6>>, <<2, 6>>, <<1, 0>>}

\* How many cells the caller leaves blank at most
MaxBlanks == 4

Blanks(g) == {c \in Columns \X Rows : g.cells[c[2]][c[1]] = 0}

SolverInit ==
    /\ grid = SolvedGrid
    /\ call = [op |-> "populate_from_list"]
    /\ exc = NoException
    /\ Idle
    /\ NoSolver
    /\ NoSpaces
    /\ NoPuzzle
    /\ NoCallerList
    /\ NoFill

\* The caller, holding no solver, blanks a cell of the grid
CallerBlank ==
    /\ pc = "idle"
    /\ options = None
    /\ Cardinality(Blanks(grid)) < MaxBlanks
    /\ \E c \in SolverCells :
          /\ grid.cells[c[2]][c[1]] # 0
          /\ grid' = set_value(grid, c[1], c[2], 0).grid
          /\ call' = [op |-> "set_value", x |-> c[1], y |-> c[2], val |-> 0]
    /\ exc' = NoException
    /\ UNCHANGED <<callVars, solverVars, spaceVars, fillVars, puzzleVars, caller_list>>

\* The caller, holding no solver, pencils into a blank cell a digit that is
\* free for it
CallerPencil ==
    /\ pc = "idle"
    /\ options = None
    /\ \E c \in SolverCells : \E val \in get_possible_values(grid, c[1], c[2])[2] :
          /\ grid' = set_value(grid, c[1], c[2], val).grid
          /\ call' = [op |-> "set_value", x |-> c[1], y |-> c[2], val |-> val]
    /\ exc' = NoException
    /\ UNCHANGED <<callVars, solverVars, spaceVars, fillVars, puzzleVars, caller_list>>

\* A solver is built and asked once, as solve_sample_puzzle does
SolveOnce == SolveCall /\ call.op = "BruteForceSolver"

\* The solver that has answered goes out of scope
DropSolver ==
    /\ pc = "idle"
    /\ call.op = "solve"
    /\ options' = None
    /\ solved_puzzle' = None
    /\ ret' = None
    /\ pre' = reset
    /\ call' = [op |-> "del"]
    /\ UNCHANGED <<grid, exc, pc, index, stack, spaceVars, fillVars, puzzleVars, caller_list>>

SolverNext ==
    CallerBlank \/ CallerPencil \/ NewSolver \/ SolveOnce \/ SolveSteps \/ DropSolver

SpecSolver == SolverInit /\ [][SolverNext]_vars

\* The grid g with its blank cells filled as f says
Fill(g, f) ==
    [g EXCEPT !.cells = [y \in Rows |-> [x \in Columns |->
        IF g.cells[y][x] = 0 THEN f[<<x, y>>] ELSE g.cells[y][x]]]]

\* The complete assignments of digits to the blank cells of g that repeat no
\* digit in any row, column or box (the first conjunct follows from the
\* second and only spares its evaluation)
Completions(g) ==
    {f \in [Blanks(g) -> possible_values] :
        /\ \A c \in Blanks(g) : f[c] \in FreeDigits(g, c[1], c[2])
        /\ GridValid(Fill(g, f))}

SolveReturned == pc = "idle" /\ call.op = "solve" /\ exc = NoException

(* C4: solve() returns as count the number of complete assignments of      *)
(* digits to the blank cells that repeat no digit in any row, column or    *)
(* box; the count is 0 when a blank cell has no candidate, and it is not   *)
(* cut short at one.                                                       *)
C4_SolverCountExact ==
    SolveReturned =>
        /\ ret[1] = Cardinality(Completions(pre))
        /\ (\E c \in Blanks(pre) : get_possible_values(pre, c[1], c[2])[2] = {}) => ret[1] = 0

C4_Witness == SolveReturned /\ ret[1] >= 2

C4_WitnessZero ==
    /\ SolveReturned
    /\ ret[1] = 0
    /\ \E c \in Blanks(pre) : get_possible_values(pre, c[1], c[2])[2] = {}

\* The cells that hold a tentative write of the running solve(): those of the
\* frames whose turn of the loop is under way
Tentative ==
    {index_to_coordinate(stack[k].index) : k \in {j \in 1..Len(stack) : j < Len(stack) \/ pc # "loop"}}

(* C5: when solve() returns, the cell matrix and the row, column and box    *)
(* index sets are what they were when it was called; while it runs, the    *)
(* only cells that differ are blank cells holding the tentative write of a *)
(* loop turn that is under way, so each write is undone before the next    *)
(* candidate is tried and before the call returns.                         *)
C5_SolverRestoresGrid ==
    /\ SolveReturned => grid = pre
    /\ (call.op = "solve" /\ pc # "idle") =>
          \A c \in Columns \X Rows :
              IF c \in Tentative
              THEN pre.cells[c[2]][c[1]] = 0 /\ grid.cells[c[2]][c[1]] # 0
              ELSE grid.cells[c[2]][c[1]] = pre.cells[c[2]][c[1]]

C5_Witness == SolveReturned /\ ret[1] >= 1 /\ Cardinality(Blanks(pre)) >= 3 /\ grid = pre

---------------------------------------------------------------------------
(* PuzzleGrid.add_spaces and its recursive search _add_spaces_impl *)

MAX_FAILED_SPACE_CONFIGURATIONS == 500

TooManyFailed == "Too many failed space configurations"

\* A plausible slip: the blanks of a box are counted one short
spaces_in_box_one_short(g, bx, by) ==
    BOX_SIZE * BOX_SIZE - Cardinality(g.definite_values_per_box[by][bx]) - 1

\* The blanks the index says a box has: BOX_SIZE * BOX_SIZE - len(box_definites)
spaces_in_box(g, bx, by) ==
    BOX_SIZE * BOX_SIZE - Cardinality(g.definite_values_per_box[by][bx])

\* A plausible slip: the average is rounded up
avg_spaces_per_box_rounded_up(n) == (n + NUM_BOXES_X * NUM_BOXES_Y - 1) \div (NUM_BOXES_X * NUM_BOXES_Y)

\* average_spaces_per_box = int(required_spaces / 9), required_spaces >= 0
avg_spaces_per_box(n) == n \div (NUM_BOXES_X * NUM_BOXES_Y)

\* A plausible slip: the band is checked, the count of average boxes is not
check_band_only(g, n, lo, hi) ==
    \A by \in BoxRows : \A bx \in BoxColumns :
        ~(spaces_in_box(g, bx, by) > hi \/ spaces_in_box(g, bx, by) < lo)

\* _check_space_distribution()
check_space_distribution(g, n, lo, hi) ==
    /\ \A by \in BoxRows : \A bx \in BoxColumns :
          ~(spaces_in_box(g, bx, by) > hi \/ spaces_in_box(g, bx, by) < lo)
    /\ Cardinality({b \in BoxColumns \X BoxRows :
                      spaces_in_box(g, b[1], b[2]) = avg_spaces_per_box(n)}) >= 5

\* The SpaceMarker list of add_spaces, in the order cells (a sequence of <<x, y>>)
Markers(g, cells) ==
    [k \in 1..Len(cells) |->
        [x |-> cells[k][1], y |-> cells[k][2], old_val |-> get_value(g, cells[k][1], cells[k][2])]]

\* space_markers[index]
Marker == space_markers[Top.index + 1]

\* solver_callback(): this callback answers True unless a cell it refuses is blank
Callback(g) == \A c \in solver_callback[1] : g.cells[c[2]][c[1]] # 0

\* A plausible slip: the recursion goes on whatever the callback said
ProceedAlways(solvable) == TRUE

\* if solvable:
Proceed(solvable) == solvable

\* A plausible slip: the cap is passed before the search is given up
TooManyFailuresLate(count) == count > MAX_FAILED_SPACE_CONFIGURATIONS

\* if self.space_failure_count >= self.MAX_FAILED_SPACE_CONFIGURATIONS
TooManyFailures(count) == count >= MAX_FAILED_SPACE_CONFIGURATIONS

\* A plausible slip: the search stops one space short
EnoughSpacesEarly(count, n) == count + 1 >= n

\* if space_count >= self.required_spaces
EnoughSpaces(count, n) == count >= n

\* A plausible slip: the marker's cell is left blank
RestoreForgotten(g, marker) == [grid |-> g, exc |-> NoException]

\* Restore the value that used to be there
Restore(g, marker) == set_value(g, marker.x, marker.y, marker.old_val)

ImplFrame(i, count, branch) == [index |-> i, space_count |-> count, i |-> branch]

\* A GridException leaves add_spaces through every frame of the search
AddSpacesRaise(message) ==
    /\ exc' = message
    /\ pc' = "idle"
    /\ stack' = <<>>
    /\ ret' = None

\* _add_spaces_impl(space_markers, index + 1, space_count) is called
ImplCall(i, count) ==
    /\ pc' = "enter"
    /\ index' = i
    /\ space_count' = count
    /\ ret' = None

\* add_spaces(solver_callback, required_spaces) up to its call of _add_spaces_impl
AddSpacesCall(callback, n, cells) ==
    /\ pc = "idle"
    /\ required_spaces' = n
    /\ solver_callback' = Some(callback)
    /\ grid_with_spaces' = None
    /\ min_spaces_per_box' = avg_spaces_per_box(n) - 1
    /\ max_spaces_per_box' = avg_spaces_per_box(n) + 1
    /\ space_failure_count' = 0
    /\ space_markers' = Markers(grid, cells)
    /\ ImplCall(0, 0)
    /\ stack' = <<>>
    /\ pre' = grid
    /\ approved' = None
    /\ call' = [op |-> "add_spaces"]
    /\ exc' = NoException
    /\ UNCHANGED <<grid, solverVars>>
    /\ UNCHANGED <<row, redo_count, row_redo_count, column, row_options, grid_tries,
                   failed_tries, row_tries, puzzleVars, caller_list>>

\* _add_spaces_impl with space_count >= required_spaces: the configuration is
\* kept if its blanks are well distributed, counted as failed otherwise
ImplBase ==
    /\ pc = "enter"
    /\ call.op = "add_spaces"
    /\ EnoughSpaces(space_count, required_spaces)
    /\ IF ~check_space_distribution(grid, required_spaces, min_spaces_per_box, max_spaces_per_box)
       THEN /\ space_failure_count' = space_failure_count + 1
            /\ grid_with_spaces' = grid_with_spaces
            /\ IF TooManyFailures(space_failure_count + 1)
               THEN AddSpacesRaise(TooManyFailed)
               ELSE pc' = "return" /\ ret' = Some(FALSE) /\ UNCHANGED <<exc, stack>>
       ELSE /\ space_failure_count' = space_failure_count
            /\ grid_with_spaces' = Some(copy(grid).grid)
            /\ IF copy(grid).exc # NoException
               THEN AddSpacesRaise(copy(grid).exc)
               ELSE pc' = "return" /\ ret' = Some(TRUE) /\ UNCHANGED <<exc, stack>>
    /\ UNCHANGED <<grid, call, pre, index, solverVars, required_spaces, solver_callback,
                   max_spaces_per_box, min_spaces_per_box, space_markers, space_count, approved>>
    /\ UNCHANGED <<fillVars, puzzleVars, caller_list>>

\* _add_spaces_impl with fewer markers left than spaces needed
ImplPrune ==
    /\ pc = "enter"
    /\ call.op = "add_spaces"
    /\ ~EnoughSpaces(space_count, required_spaces)
    /\ Len(space_markers) - index < required_spaces - space_count
    /\ pc' = "return"
    /\ ret' = Some(FALSE)
    /\ UNCHANGED <<grid, call, exc, pre, index, stack, solverVars, spaceVars, fillVars, puzzleVars, caller_list>>

\* The first turn of the loop (i == 0): the marker's cell is blanked; within
\* the box's cap the callback is asked, beyond it the cell is restored and
\* the second turn (i == 1) recurses without a space here
ImplInclude ==
    /\ pc = "enter"
    /\ call.op = "add_spaces"
    /\ ~EnoughSpaces(space_count, required_spaces)
    /\ Len(space_markers) - index >= required_spaces - space_count
    /\ LET marker == space_markers[index + 1]
           blanked == set_value(grid, marker.x, marker.y, 0).grid
           b == get_box_coordinates(marker.x, marker.y)
           restored == Restore(blanked, marker)
       IN  IF spaces_in_box(blanked, b[1], b[2]) <= max_spaces_per_box
           THEN /\ grid' = blanked
                /\ stack' = Append(stack, ImplFrame(index, space_count, 0))
                /\ pc' = "callback"
                /\ UNCHANGED <<exc, ret, index, space_count>>
           ELSE /\ grid' = restored.grid
                /\ IF restored.exc # NoException
                   THEN AddSpacesRaise(restored.exc) /\ UNCHANGED <<index, space_count>>
                   ELSE /\ stack' = Append(stack, ImplFrame(index, space_count, 1))
                        /\ ImplCall(index + 1, space_count)
                        /\ exc' = exc
    /\ UNCHANGED <<call, pre, solverVars, required_spaces, solver_callback, grid_with_spaces,
                   max_spaces_per_box, min_spaces_per_box, space_failure_count,
                   space_markers, approved>>
    /\ UNCHANGED <<fillVars, puzzleVars, caller_list>>

\* The second turn of the loop of the innermost call, after its first turn
\* restored the marker's cell
SecondTurn(restored) ==
    /\ grid' = restored.grid
    /\ IF restored.exc # NoException
       THEN AddSpacesRaise(restored.exc) /\ UNCHANGED <<index, space_count>>
       ELSE /\ stack' = [stack EXCEPT ![Len(stack)].i = 1]
            /\ ImplCall(Top.index + 1, Top.space_count)
            /\ exc' = exc

\* solver_callback() returns: if solvable the search recurses with one more
\* space, else the cell is restored and the second turn begins
CallbackReturn ==
    /\ pc = "callback"
    /\ IF Proceed(Callback(grid))
       THEN /\ ImplCall(Top.index + 1, Top.space_count + 1)
            /\ UNCHANGED <<grid, exc, stack>>
       ELSE SecondTurn(Restore(grid, Marker))
    /\ approved' = IF Callback(grid) THEN Some(grid.cells) ELSE approved
    /\ UNCHANGED <<call, pre, solverVars, required_spaces, solver_callback, grid_with_spaces,
                   max_spaces_per_box, min_spaces_per_box, space_failure_count, space_markers>>
    /\ UNCHANGED <<fillVars, puzzleVars, caller_list>>

\* A recursive call returns to the turn of the loop that made it
ImplReturn ==
    /\ pc = "return"
    /\ call.op = "add_spaces"
    /\ stack # <<>>
    /\ IF ret[1]
       THEN /\ stack' = Pop
            /\ UNCHANGED <<grid, exc, ret, pc, index, space_count>>
       ELSE IF Top.i = 0
            THEN SecondTurn(Restore(grid, Marker))
            ELSE /\ stack' = Pop
                 /\ UNCHANGED <<grid, exc, ret, pc, index, space_count>>
    /\ UNCHANGED <<call, pre, solverVars, required_spaces, solver_callback, grid_with_spaces,
                   max_spaces_per_box, min_spaces_per_box, space_failure_count,
                   space_markers, approved>>
    /\ UNCHANGED <<fillVars, puzzleVars, caller_list>>

\* add_spaces after _add_spaces_impl returned: the kept configuration is
\* copied into self, and success is returned
AddSpacesReturn ==
    /\ pc = "return"
    /\ call.op = "add_spaces"
    /\ stack = <<>>
    /\ IF ret[1] /\ grid_with_spaces # None
       THEN /\ grid' = copy(grid_with_spaces[1]).grid
            /\ exc' = copy(grid_with_spaces[1]).exc
       ELSE UNCHANGED <<grid, exc>>
    /\ pc' = "idle"
    /\ UNCHANGED <<call, ret, pre, index, stack, solverVars, spaceVars, fillVars, puzzleVars, caller_list>>

AddSpacesSteps == ImplBase \/ ImplPrune \/ ImplInclude \/ CallbackReturn \/ ImplReturn \/ AddSpacesReturn

---------------------------------------------------------------------------
(* A caller that populates a grid and has spaces added to it *)

\* The cell number k (0..8, row by row) of box number b (0..8, row by row)
CellOfBox(b, k) == <<(b % NUM_BOXES_X) * BOX_SIZE + (k % BOX_SIZE),
                     (b \div NUM_BOXES_X) * BOX_SIZE + (k \div BOX_SIZE)>>

NumCells == NUM_ROWS * NUM_COLUMNS

Range(seq) == {seq[k] : k \in 1..Len(seq)}

\* Orders random.shuffle can leave the markers in: the unshuffled order of
\* the loops that build the list, one that visits the boxes in turn, one that
\* takes the boxes two cells at a time, and one whose ninth marker falls in
\* the box of the first
RowMajor == [k \in 1..NumCells |-> <<(k - 1) % NUM_COLUMNS, (k - 1) \div NUM_COLUMNS>>]
BoxesInTurn == [k \in 1..NumCells |-> CellOfBox((k - 1) % 9, (k - 1) \div 9)]
BoxesInPairs == [k \in 1..NumCells |->
                    IF k <= 72 THEN CellOfBox(((k - 1) \div 2) % 9, 2 * ((k - 1) \div 18) + ((k - 1) % 2))
                    ELSE CellOfBox(k - 73, 8)]
OneRetryFirst == <<CellOfBox(0, 0), CellOfBox(1, 0), CellOfBox(2, 0), CellOfBox(3, 0),
                   CellOfBox(4, 0), CellOfBox(4, 1), CellOfBox(5, 0), CellOfBox(5, 1),
                   CellOfBox(0, 1), CellOfBox(6, 0)>>
NotFirst(c) == c \notin Range(OneRetryFirst)
OneRetry == OneRetryFirst \o SelectSeq(RowMajor, NotFirst)
Shuffles == {RowMajor, BoxesInTurn, BoxesInPairs, OneRetry}

\* The callbacks: each refuses the grids in which one of its cells is blank
MaxRefused == 1
RefusableCells == {<<0, 0>>, <<4, 1>>, <<8, 8>>}
Callbacks == {R \in SUBSET RefusableCells : Cardinality(R) <= MaxRefused}

\* The values of required_spaces the caller asks for
SpaceCounts == {0, 1, 4, 5, 9, 13, 18, 81, 82}

SpacesInit ==
    /\ grid = SolvedGrid
    /\ call = [op |-> "populate_from_list"]
    /\ exc = NoException
    /\ Idle
    /\ NoSolver
    /\ NoSpaces
    /\ NoPuzzle
    /\ NoCallerList
    /\ NoFill

\* populate_from_list(solved puzzle) on the grid of an earlier add_spaces
Repopulate ==
    /\ pc = "idle"
    /\ call.op = "add_spaces"
    /\ grid' = populate_from_list(grid, FromRows(SolvedSample)).grid
    /\ exc' = populate_from_list(grid, FromRows(SolvedSample)).exc
    /\ call' = [op |-> "populate_from_list"]
    /\ UNCHANGED <<callVars, solverVars, spaceVars, fillVars, puzzleVars, caller_list>>

AddSpaces ==
    \E callback \in Callbacks : \E n \in SpaceCounts : \E cells \in Shuffles :
        /\ call.op = "populate_from_list"
        /\ AddSpacesCall(callback, n, cells)
        /\ UNCHANGED rng

SpacesNext == Repopulate \/ AddSpaces \/ AddSpacesSteps

SpecSpaces == SpacesInit /\ [][SpacesNext]_vars

---------------------------------------------------------------------------
(* Claims about add_spaces *)

\* add_spaces has returned to its caller without an exception
AddSpacesReturned == pc = "idle" /\ call.op = "add_spaces" /\ exc = NoException

AddSpacesSucceeded == AddSpacesReturned /\ ret = Some(TRUE) /\ Blanks(pre) = {}

\* C6: when add_spaces(callback, n) returns True on a fully populated grid,
\* the grid has exactly n blank cells and every cell that is not blank holds
\* the digit it held before the call.
C6_SpacesExactAndCluesKept ==
    AddSpacesSucceeded =>
        /\ Cardinality(Blanks(grid)) = required_spaces
        /\ \A c \in (Columns \X Rows) \ Blanks(grid) : grid.cells[c[2]][c[1]] = pre.cells[c[2]][c[1]]

\* The search succeeded after a configuration had failed and a blanked cell
\* had been restored
C6_Witness ==
    /\ AddSpacesSucceeded
    /\ required_spaces = 9
    /\ space_failure_count = 1
    /\ grid.cells[space_markers[9].y][space_markers[9].x] # 0

\* C7: unique solvability is verified at every step.  Outside the callback,
\* every blank cell of the grid is blank in the grid the callback approved
\* last; the count of spaces grows only when the callback has just approved
\* the grid as it stands; and when add_spaces returns True with
\* required_spaces >= 1 the grid returned is exactly the grid approved last.
C7_EveryBlankApproved ==
    /\ [](  (call.op = "add_spaces" /\ pc # "callback" /\ Blanks(pre) = {} /\ Blanks(grid) # {})
            => (approved # None /\ \A c \in Blanks(grid) : approved[1][c[2]][c[1]] = 0))
    /\ []((AddSpacesSucceeded /\ required_spaces >= 1) => approved = Some(grid.cells))
    /\ [][(call.op = "add_spaces" /\ call'.op = "add_spaces" /\ space_count' > space_count)
            => (pc = "callback" /\ Callback(grid) /\ grid' = grid /\ approved' = Some(grid.cells))]_vars

\* The callback refused the first marker's blank, and the search went on to
\* a grid of 18 approved blanks
C7_Witness ==
    /\ AddSpacesSucceeded
    /\ required_spaces = 18
    /\ <<space_markers[1].x, space_markers[1].y>> \in solver_callback[1]
    /\ approved = Some(grid.cells)

\* The blanks of a box, counted in the matrix
BlanksInBox(g, bx, by) == Cardinality(BoxCells(bx, by) \cap Blanks(g))

\* C8: after add_spaces succeeds with required_spaces = n and avg = floor(n/9),
\* every box has between avg - 1 and avg + 1 blanks and at least 5 of the 9
\* boxes have exactly avg blanks.
C8_SpaceDistribution ==
    AddSpacesSucceeded =>
        LET avg == required_spaces \div 9 IN
        /\ \A b \in BoxColumns \X BoxRows :
              /\ BlanksInBox(grid, b[1], b[2]) >= avg - 1
              /\ BlanksInBox(grid, b[1], b[2]) <= avg + 1
        /\ Cardinality({b \in BoxColumns \X BoxRows : BlanksInBox(grid, b[1], b[2]) = avg}) >= 5

\* A success whose boxes do not all have the average number of blanks
C8_Witness ==
    /\ AddSpacesSucceeded
    /\ required_spaces = 13
    /\ \E b \in BoxColumns \X BoxRows : BlanksInBox(grid, b[1], b[2]) = 2
    /\ \E b \in BoxColumns \X BoxRows : BlanksInBox(grid, b[1], b[2]) = 1

---------------------------------------------------------------------------
(* PuzzleGrid.populate_cells and _attempt_populate_cells *)

max_redos == 40

max_row_redos == 20

CouldNotGenerate == "Could not generate puzzle"

\* The random number stream behind random.choice: a multiplicative
\* congruential generator, small enough for every phase of it to be tried
RngModulus == 11
RngMultiplier == 2
NextRandom(r) == (RngMultiplier * r) % RngModulus

\* The element of a non-empty set of digits with k smaller elements in it
NthSmallest(S, k) == CHOOSE v \in S : Cardinality({u \in S : u < v}) = k

\* random.choice(list(choices))
Pick(choices, r) == NthSmallest(choices, r % Cardinality(choices))

\* A plausible slip: the digits of the column are not taken out
ChoicesIgnoringColumn(options_left, column_definite, box_definite) ==
    options_left \ box_definite

\* choices = row_options - self.definite_values_per_column[x] - box_definite
Choices(options_left, column_definite, box_definite) ==
    (options_left \ column_definite) \ box_definite

\* The assignments of lines 417 to 421
Place(g, x, yy, choice) ==
    LET b == get_box_coordinates(x, yy)
    IN  [g EXCEPT !.cells[yy][x] = choice,
                  !.definite_values_per_row[yy] = @ \cup {choice},
                  !.definite_values_per_column[x] = @ \cup {choice},
                  !.definite_values_per_box[b[2]][b[1]] = @ \cup {choice}]

\* A plausible slip: the row loop runs while redo_count <= max_row_redos
RowLoopOneMore(redo) == redo <= max_row_redos

\* while redo_count < max_row_redos
RowLoopContinues(redo) == redo < max_row_redos

\* populate_cells() is called
PopulateCall ==
    /\ pc = "idle"
    /\ call' = [op |-> "populate_cells"]
    /\ exc' = NoException
    /\ ret' = None
    /\ pre' = grid
    /\ pc' = "populate_cells"
    /\ redo_count' = 0
    /\ grid_tries' = 0
    /\ failed_tries' = 0
    /\ UNCHANGED <<grid, index, stack, solverVars, spaceVars, puzzleVars, caller_list, rng, row,
                   row_redo_count, column, row_options, row_tries>>

\* while redo_count < max_redos: self._attempt_populate_cells() is called
PopulateLoop ==
    /\ pc = "populate_cells"
    /\ IF redo_count < max_redos
       THEN /\ pc' = "row"
            /\ row' = 0
            /\ row_redo_count' = 0
            /\ grid_tries' = grid_tries + 1
            /\ row_tries' = [r \in Rows |-> 0]
       ELSE /\ pc' = "after"
            /\ UNCHANGED <<row, row_redo_count, grid_tries, row_tries>>
    /\ UNCHANGED <<grid, call, exc, ret, pre, index, stack, solverVars, spaceVars, puzzleVars, caller_list,
                   rng, redo_count, column, row_options, failed_tries>>

\* A turn of the row loop begins: self.clear_row(y) is called, with y in
\* range(self.NUM_ROWS)
RowAttempt ==
    /\ pc = "row"
    /\ RowLoopContinues(row_redo_count)
    /\ row_tries' = [row_tries EXCEPT ![row] = @ + 1]
    /\ column' = 0
    /\ pc' = "clear_row"
    /\ UNCHANGED <<grid, call, exc, ret, pre, index, stack, solverVars, spaceVars, puzzleVars, caller_list,
                   rng, row, redo_count, row_redo_count, row_options, grid_tries, failed_tries>>

\* One turn of the loop of clear_row; after the last,
\* row_options = set(self.possible_values) and the loop over the row begins
ClearRowStep ==
    /\ pc = "clear_row"
    /\ grid' = ClearCell(grid, column, row)
    /\ IF column + 1 < NUM_COLUMNS
       THEN column' = column + 1 /\ UNCHANGED <<pc, row_options>>
       ELSE column' = 0 /\ pc' = "fill" /\ row_options' = possible_values
    /\ UNCHANGED <<call, exc, ret, pre, index, stack, solverVars, spaceVars, puzzleVars, caller_list,
                   rng, row, redo_count, row_redo_count, grid_tries, failed_tries, row_tries>>

\* One turn of the loop over the row: with no choice left the row has failed
\* and is started over, otherwise a choice is drawn and placed
FillStep ==
    /\ pc = "fill"
    /\ LET b == get_box_coordinates(column, row)
           choices == Choices(row_options, grid.definite_values_per_column[column],
                              grid.definite_values_per_box[b[2]][b[1]])
       IN  IF Cardinality(choices) = 0
           THEN /\ row_redo_count' = row_redo_count + 1
                /\ pc' = "row"
                /\ UNCHANGED <<grid, rng, column, row_options>>
           ELSE /\ grid' = Place(grid, column, row, Pick(choices, rng))
                /\ row_options' = row_options \ {Pick(choices, rng)}
                /\ rng' = NextRandom(rng)
                /\ row_redo_count' = row_redo_count
                /\ IF column + 1 < NUM_COLUMNS
                   THEN column' = column + 1 /\ pc' = pc
                   ELSE column' = column /\ pc' = "row_done"
    /\ UNCHANGED <<call, exc, ret, pre, index, stack, solverVars, spaceVars, puzzleVars, caller_list,
                   row, redo_count, grid_tries, failed_tries, row_tries>>

\* The row loop ends because redo_count reached max_row_redos
RowLoopExit ==
    /\ pc = "row"
    /\ ~RowLoopContinues(row_redo_count)
    /\ pc' = "row_done"
    /\ UNCHANGED <<grid, call, exc, ret, pre, index, stack, solverVars, spaceVars, fillVars, puzzleVars, caller_list>>

\* if redo_count == max_row_redos: return False; otherwise the next row, and
\* return True after the last
RowDone ==
    /\ pc = "row_done"
    /\ IF row_redo_count = max_row_redos
       THEN ret' = Some(FALSE) /\ pc' = "returned" /\ UNCHANGED <<row, row_redo_count>>
       ELSE IF row + 1 < NUM_ROWS
            THEN row' = row + 1 /\ row_redo_count' = 0 /\ pc' = "row" /\ ret' = ret
            ELSE ret' = Some(TRUE) /\ pc' = "returned" /\ UNCHANGED <<row, row_redo_count>>
    /\ UNCHANGED <<grid, call, exc, pre, index, stack, solverVars, spaceVars, puzzleVars, caller_list,
                   rng, redo_count, column, row_options, grid_tries, failed_tries, row_tries>>

\* _attempt_populate_cells has returned to the loop of populate_cells
AttemptReturned ==
    /\ pc = "returned"
    /\ IF ret[1]
       THEN pc' = "after" /\ UNCHANGED <<redo_count, failed_tries>>
       ELSE /\ pc' = "populate_cells"
            /\ redo_count' = redo_count + 1
            /\ failed_tries' = failed_tries + 1
    /\ UNCHANGED <<grid, call, exc, ret, pre, index, stack, solverVars, spaceVars, puzzleVars, caller_list,
                   rng, row, row_redo_count, column, row_options, grid_tries, row_tries>>

\* if redo_count == max_redos: raise GridException("Could not generate puzzle")
PopulateEnd ==
    /\ pc = "after"
    /\ exc' = IF redo_count = max_redos THEN CouldNotGenerate ELSE NoException
    /\ ret' = None
    /\ pc' = "idle"
    /\ UNCHANGED <<grid, call, pre, index, stack, solverVars, spaceVars, fillVars, puzzleVars, caller_list>>

PopulateSteps ==
    PopulateLoop \/ RowAttempt \/ ClearRowStep \/ FillStep \/ RowLoopExit \/ RowDone \/ AttemptReturned \/ PopulateEnd

---------------------------------------------------------------------------
(* A caller that populates an empty grid *)

\* The seeds of the random number stream
NumSeeds == 6

PopulateInit ==
    /\ grid = reset
    /\ call = [op |-> "__init__"]
    /\ exc = NoException
    /\ Idle
    /\ NoSolver
    /\ NoSpaces
    /\ NoPuzzle
    /\ NoCallerList
    /\ rng \in 0..(NumSeeds - 1)
    /\ row = 0
    /\ redo_count = 0
    /\ row_redo_count = 0
    /\ column = 0
    /\ row_options = possible_values
    /\ grid_tries = 0
    /\ failed_tries = 0
    /\ row_tries = [r \in Rows |-> 0]

\* populate_cells() on the new grid
PopulateEmpty == call.op = "__init__" /\ PopulateCall

PopulateNext == PopulateEmpty \/ PopulateSteps

SpecPopulate == PopulateInit /\ [][PopulateNext]_vars

\* A call of populate_cells that has begun goes on running
SpecPopulateFair == SpecPopulate /\ WF_vars(PopulateSteps)

---------------------------------------------------------------------------
(* Claims about populate_cells *)

\* populate_cells has come back to its caller, by return or by exception
PopulateDone == pc = "idle" /\ call.op = "populate_cells"

Digits == 1..9

\* No blank, and every row, column and box holds each digit exactly once
FullAndValid(g) ==
    /\ Blanks(g) = {}
    /\ GridValid(g)
    /\ \A r \in Rows : RowDigits(g, r) = Digits
    /\ \A c \in Columns : ColumnDigits(g, c) = Digits
    /\ \A b \in BoxColumns \X BoxRows : BoxDigits(g, b[1], b[2]) = Digits

AllIndexSetsFull(g) ==
    /\ \A r \in Rows : g.definite_values_per_row[r] = Digits
    /\ \A c \in Columns : g.definite_values_per_column[c] = Digits
    /\ \A b \in BoxColumns \X BoxRows : g.definite_values_per_box[b[2]][b[1]] = Digits

\* C9: whenever populate_cells() on an empty grid returns normally the grid
\* has no blank cell, every row, column and box holds each of 1..9 exactly
\* once and every index set is {1..9}; whenever it does not reach such a
\* grid it raises GridException instead of returning.
C9_PopulatorPostcondition ==
    (PopulateDone /\ pre = reset) =>
        /\ exc = NoException => (FullAndValid(grid) /\ AllIndexSetsFull(grid))
        /\ ~(FullAndValid(grid) /\ AllIndexSetsFull(grid)) => exc = CouldNotGenerate

\* A normal return after ten whole-grid attempts had failed
C9_Witness ==
    /\ PopulateDone
    /\ pre = reset
    /\ exc = NoException
    /\ failed_tries = 10
    /\ FullAndValid(grid)

\* populate_cells raised, leaving a grid that is not full
C9_WitnessRaise ==
    /\ PopulateDone
    /\ pre = reset
    /\ exc = CouldNotGenerate
    /\ Blanks(grid) # {}

PopulateRunning == call.op = "populate_cells" /\ pc # "idle"

\* C10: populate_cells() terminates after at most 40 whole-grid attempts; a
\* whole-grid attempt tries no row more than 20 times and fails as soon as
\* one row has failed 20 times; GridException is raised exactly when all 40
\* whole-grid attempts failed.
C10_PopulatorRetryBounds ==
    /\ [](call.op = "populate_cells" =>
            /\ grid_tries <= 40
            /\ \A r \in Rows : row_tries[r] <= 20
            /\ (pc = "returned" /\ ret = Some(FALSE)) =>
                  /\ row_tries[row] = 20
                  /\ \A r \in Rows : r > row => row_tries[r] = 0
            /\ (pc = "returned" /\ ret = Some(TRUE)) =>
                  \A r \in Rows : row_tries[r] >= 1 /\ row_tries[r] <= 20
            /\ pc = "idle" =>
                  /\ exc = CouldNotGenerate <=> (grid_tries = 40 /\ failed_tries = 40)
                  /\ exc = NoException <=> failed_tries = grid_tries - 1
                  /\ exc \in {CouldNotGenerate, NoException})
    /\ (PopulateRunning ~> PopulateDone)

\* All 40 whole-grid attempts failed, the last on a row tried 20 times
C10_Witness ==
    /\ PopulateDone
    /\ exc = CouldNotGenerate
    /\ grid_tries = 40
    /\ failed_tries = 40
    /\ row_tries[row] = 20

---------------------------------------------------------------------------
(* Claims about the failures of add_spaces *)

\* add_spaces has come back to its caller, by return or by exception
AddSpacesDone == pc = "idle" /\ call.op = "add_spaces"

AddSpacesFailed == AddSpacesDone /\ Blanks(pre) = {} /\ ~(exc = NoException /\ ret = Some(TRUE))

\* C11: whenever an add_spaces search on a fully populated grid does not
\* succeed, by returning False or by the GridException of too many failed
\* configurations, every tentatively blanked cell has been restored: the cell
\* matrix and the index sets equal those of the grid that was passed in.
C11_RestoredOnEveryFailure == AddSpacesFailed => grid = pre

\* The part of C11 that the code does keep: a search that returns False has
\* restored every cell
C11_RestoredOnReturnFalse ==
    (AddSpacesFailed /\ exc = NoException) => grid = pre

\* The blanks of the matrix are balanced for n required spaces: every box
\* within one of the average, at least 5 boxes at the average
Balanced(g, n) ==
    LET blank == Blanks(g)
        blanks == [b \in BoxColumns \X BoxRows |->
                      Cardinality({c \in blank : get_box_coordinates(c[1], c[2]) = b})]
    IN  /\ \A b \in BoxColumns \X BoxRows :
              blanks[b] >= (n \div 9) - 1 /\ blanks[b] <= (n \div 9) + 1
        /\ Cardinality({b \in BoxColumns \X BoxRows : blanks[b] = n \div 9}) >= 5

\* A call of _add_spaces_impl is at its base case
AtBaseCase == call.op = "add_spaces" /\ pc = "enter" /\ space_count >= required_spaces

\* C12: within one add_spaces invocation the failure counter starts at 0, is
\* incremented exactly once per base case whose distribution check fails and
\* by nothing else, and the GridException of too many failed configurations
\* is raised exactly when the counter reaches 500; no 501st failed
\* configuration is examined, and a balanced base case leaves the counter.
C12_FailedConfigurationCap ==
    /\ [](call.op = "add_spaces" =>
            /\ space_failure_count <= 500
            /\ exc = TooManyFailed <=> space_failure_count = 500
            /\ space_failure_count = 500 => pc = "idle")
    /\ [][call'.op = "add_spaces" =>
            /\ (pc = "idle" /\ pc' # "idle") => space_failure_count' = 0
            /\ AtBaseCase =>
                  IF Balanced(grid, required_spaces)
                  THEN space_failure_count' = space_failure_count /\ ret' = Some(TRUE)
                  ELSE space_failure_count' = space_failure_count + 1
            /\ (pc # "idle" /\ ~AtBaseCase) => space_failure_count' = space_failure_count]_vars

\* The 500th failed configuration has ended the search with the exception
C12_Witness ==
    /\ AddSpacesDone
    /\ exc = TooManyFailed
    /\ space_failure_count = 500
    /\ ~Balanced(grid, required_spaces)

---------------------------------------------------------------------------
(* The getters as a caller sees them, with their coordinate checks *)

\* get_value(x, y): what it returns and what it raises
GetValueResult(g, x, y) ==
    IF ~InRange(x, y) THEN [ret |-> None, exc |-> BadCoordinates]
    ELSE [ret |-> Some(get_value(g, x, y)), exc |-> NoException]

\* get_possible_values(x, y): what it returns and what it raises
GetPossibleValuesResult(g, x, y) ==
    IF ~InRange(x, y) THEN [ret |-> None, exc |-> BadCoordinates]
    ELSE [ret |-> Some(get_possible_values(g, x, y)), exc |-> NoException]

\* get_box_coordinates(cell_x, cell_y): what it returns and what it raises
GetBoxCoordinatesResult(cell_x, cell_y) ==
    IF ~InRange(cell_x, cell_y) THEN [ret |-> None, exc |-> BadCoordinates]
    ELSE [ret |-> Some(get_box_coordinates(cell_x, cell_y)), exc |-> NoException]

\* The coordinates the caller reads at
GetterCalls == {<<0, 0>>, <<4, 0>>, <<8, 8>>, <<-1, 0>>, <<9, 0>>, <<0, 9>>, <<0, -1>>}

GetValue ==
    \E c \in GetterCalls :
        /\ pc = "idle"
        /\ ret' = GetValueResult(grid, c[1], c[2]).ret
        /\ exc' = GetValueResult(grid, c[1], c[2]).exc
        /\ call' = [op |-> "get_value", x |-> c[1], y |-> c[2]]
        /\ UNCHANGED <<grid, pre, pc, index, stack, solverVars, spaceVars, fillVars, puzzleVars, caller_list>>

GetPossibleValues ==
    \E c \in GetterCalls :
        /\ pc = "idle"
        /\ ret' = GetPossibleValuesResult(grid, c[1], c[2]).ret
        /\ exc' = GetPossibleValuesResult(grid, c[1], c[2]).exc
        /\ call' = [op |-> "get_possible_values", x |-> c[1], y |-> c[2]]
        /\ UNCHANGED <<grid, pre, pc, index, stack, solverVars, spaceVars, fillVars, puzzleVars, caller_list>>

GetBoxCoordinates ==
    \E c \in GetterCalls :
        /\ pc = "idle"
        /\ ret' = GetBoxCoordinatesResult(c[1], c[2]).ret
        /\ exc' = GetBoxCoordinatesResult(c[1], c[2]).exc
        /\ call' = [op |-> "get_box_coordinates", x |-> c[1], y |-> c[2]]
        /\ UNCHANGED <<grid, pre, pc, index, stack, solverVars, spaceVars, fillVars, puzzleVars, caller_list>>

AccessNext == Next \/ GetValue \/ GetPossibleValues \/ GetBoxCoordinates

SpecAccess == Init /\ [][AccessNext]_vars

\* C13: set_value fails with the bad-coordinates GridException whenever x or
\* y is outside 0..8 and with the bad-value GridException whenever the
\* coordinates are in range and v is outside 0..9; get_value,
\* get_possible_values and get_box_coordinates fail the same way on
\* coordinates out of range; none of them fails so on arguments in range; and
\* in every such failure the cell matrix and the index sets are unchanged.
C13_Boundaries ==
    [][call'.op \in {"set_value", "get_value", "get_possible_values", "get_box_coordinates"} =>
         LET inside == call'.x \in 0..8 /\ call'.y \in 0..8
             valid == call'.op # "set_value" \/ call'.val \in 0..9
         IN  /\ ~inside => (exc' = BadCoordinates /\ grid' = grid)
             /\ (inside /\ ~valid) => (exc' = BadValue /\ grid' = grid)
             /\ (inside /\ valid) => exc' \notin {BadCoordinates, BadValue}]_vars

\* set_value(0, 0, 10) has been refused on a grid that holds digits
C13_Witness ==
    /\ call.op = "set_value"
    /\ call.val = 10
    /\ exc = BadValue
    /\ Cardinality(Blanks(grid)) <= 79

\* get_possible_values(9, 0) has been refused on a grid that holds digits
C13_WitnessGetter ==
    /\ call.op = "get_possible_values"
    /\ call.x = 9
    /\ exc = BadCoordinates
    /\ Cardinality(Blanks(grid)) <= 79

---------------------------------------------------------------------------
(* A caller that populates a grid from lists of its own *)

Solved0 == FromRows(SolvedSample)

\* The solved sample with the cells of B blank
Masked(B) == [r \in Rows |-> [c \in Columns |-> IF <<c, r>> \in B THEN 0 ELSE Solved0[r][c]]]

\* m with entry v at column c of row r
WithEntry(m, c, r, v) == [m EXCEPT ![r][c] = v]

\* m with row r cut to its first n entries, and m cut to its first n rows
WithRowOf(m, r, n) == [m EXCEPT ![r] = [c \in 0..(n - 1) |-> m[r][c]]]
WithRows(m, n) == [r \in 0..(n - 1) |-> m[r % NUM_ROWS]]

MaxMasked == 2
MaskCells == {<<0, 0>>, <<1, 0>>, <<4, 4>>, <<8, 8>>}
ValidMatrices ==
    {Masked(B) : B \in {B \in SUBSET MaskCells : Cardinality(B) <= MaxMasked}}
        \cup {Masked(Columns \X Rows)}

\* Matrices with a digit twice in a group, with an entry that is no digit,
\* and of the wrong shape
RepeatingMatrices ==
    {WithEntry(Masked({<<0, 0>>}), 0, 0, 5), WithEntry(Masked({<<4, 4>>}), 4, 4, 1),
     WithEntry(Masked({<<8, 8>>}), 8, 8, 7)}
BadEntryCells == {<<0, 0>>, <<4, 4>>, <<8, 8>>}
BadEntryMatrices ==
    {WithEntry(Masked(B), c[1], c[2], v) :
        B \in {{<<1, 0>>}}, c \in BadEntryCells, v \in {-1, 10}}
        \cup {WithEntry(WithEntry(Masked({}), 1, 0, 8), 8, 8, 10)}
BadShapeMatrices ==
    {WithRows(Masked({}), 8), WithRows(Masked({}), 10), WithRows(Masked({}), 0),
     WithRowOf(Masked({}), 0, 8), WithRowOf(Masked({}), 4, 8), WithRowOf(Masked({<<0, 0>>}), 8, 0),
     WithRowOf(WithEntry(Masked({}), 0, 0, 10), 8, 8)}
    \cup {[Masked({}) EXCEPT ![4] = [c \in 0..9 |-> 0]]}

Matrices == ValidMatrices \cup RepeatingMatrices \cup BadEntryMatrices \cup BadShapeMatrices

PopulateFromList ==
    \E m \in Matrices :
        /\ pc = "idle"
        /\ LET r == populate_from_list(grid, m)
           IN  grid' = r.grid /\ exc' = r.exc
        /\ call' = [op |-> "populate_from_list", hard_coded |-> m]
        /\ pre' = grid
        /\ UNCHANGED <<ret, pc, index, stack, solverVars, spaceVars, fillVars, puzzleVars, caller_list>>

FixedNext == PopulateFromList \/ Reset

SpecFixed == Init /\ [][FixedNext]_vars

---------------------------------------------------------------------------
(* Claims about populate_from_list *)

PopulateFromListDone == pc = "idle" /\ call.op = "populate_from_list"

\* m has 9 rows of 9 entries
NineByNine(m) == DOMAIN m = Rows /\ \A r \in Rows : DOMAIN m[r] = Columns

\* Every entry of m is in 0..9
EntriesInRange(m) == \A r \in DOMAIN m : \A c \in DOMAIN m[r] : m[r][c] \in 0..9

\* No non-zero digit occurs twice in a row, a column or a box of m
NoRepeatedDigit(m) ==
    \A a, b \in Columns \X Rows :
        (/\ a # b
         /\ m[a[2]][a[1]] # 0
         /\ m[a[2]][a[1]] = m[b[2]][b[1]])
        => /\ a[1] # b[1]
           /\ a[2] # b[2]
           /\ get_box_coordinates(a[1], a[2]) # get_box_coordinates(b[1], b[2])

ValidMatrix(m) == NineByNine(m) /\ EntriesInRange(m) /\ NoRepeatedDigit(m)

\* C14: for every 9x9 matrix m with entries in 0..9 and no repeated non-zero
\* digit in a row, column or box, populate_from_list(m) succeeds, and then
\* get_value(x, y) = m[y][x] for every cell and every index set holds the
\* non-zero digits of its group in m, whatever the grid held before.
C14_FixedValuesRoundTrip ==
    (PopulateFromListDone /\ ValidMatrix(call.hard_coded)) =>
        LET m == call.hard_coded IN
        /\ exc = NoException
        /\ \A c \in Columns \X Rows :
              GetValueResult(grid, c[1], c[2]) = [ret |-> Some(m[c[2]][c[1]]), exc |-> NoException]
        /\ \A r \in Rows :
              grid.definite_values_per_row[r] = {m[r][c] : c \in Columns} \ {0}
        /\ \A c \in Columns :
              grid.definite_values_per_column[c] = {m[r][c] : r \in Rows} \ {0}
        /\ \A b \in BoxColumns \X BoxRows :
              grid.definite_values_per_box[b[2]][b[1]] =
                  {m[c[2]][c[1]] : c \in BoxCells(b[1], b[2])} \ {0}

\* A partly blank valid matrix has replaced a different, full grid
C14_Witness ==
    /\ PopulateFromListDone
    /\ ValidMatrix(call.hard_coded)
    /\ Cardinality(Blanks(grid)) = 2
    /\ NineByNine(pre.cells)
    /\ \A c \in Columns \X Rows : pre.cells[c[2]][c[1]] \in 1..9
    /\ grid.cells = call.hard_coded

\* C15: populate_from_list validates before it applies.  A matrix that is
\* not 9 rows of 9 entries is refused with the GridException of a wrong
\* shape, a matrix of that shape with an entry outside 0..9 with the
\* GridException of a bad cell value, whatever its other entries are, and in
\* both cases no cell and no index set of the grid has been modified.
C15_ValidatesBeforeApplying ==
    PopulateFromListDone =>
        LET m == call.hard_coded IN
        /\ ~NineByNine(m) => (exc \in {WrongNumberOfRows, WrongNumberOfEntries} /\ grid = pre)
        /\ (NineByNine(m) /\ ~EntriesInRange(m)) => (exc = BadCellValue /\ grid = pre)

\* The part of C15 that the code does keep: a list that has not 9 rows is
\* refused before anything is touched
C15_RowCountCheckedFirst ==
    (PopulateFromListDone /\ DOMAIN call.hard_coded # Rows)
        => (exc = WrongNumberOfRows /\ grid = pre)

---------------------------------------------------------------------------
(* A caller that copies grids *)

RECURSIVE CopyRowOfSelf(_, _, _)
\* The inner loop of copy when other is self: get_value reads the grid that
\* is being written
CopyRowOfSelf(g, r, c) ==
    IF c >= NUM_COLUMNS THEN [grid |-> g, exc |-> NoException]
    ELSE LET res == set_value(g, c, r, get_value(g, c, r))
         IN  IF res.exc # NoException THEN res ELSE CopyRowOfSelf(res.grid, r, c + 1)

RECURSIVE CopyRowsOfSelf(_, _)
CopyRowsOfSelf(g, r) ==
    IF r >= NUM_ROWS THEN [grid |-> g, exc |-> NoException]
    ELSE LET res == CopyRowOfSelf(g, r, 0)
         IN  IF res.exc # NoException THEN res ELSE CopyRowsOfSelf(res.grid, r + 1)

\* self.copy(self): self.reset() has reset other as well
copy_of_self == CopyRowsOfSelf(reset, 0)

\* The grids the caller copies from: valid ones, and ones whose matrix holds
\* a digit twice because a list was refused half way
SourceGrids == {populate_from_list(reset, m).grid : m \in ValidMatrices \cup RepeatingMatrices}

\* The cell matrix has 9 rows of 9 entries
WellShaped(g) == DOMAIN g.cells = Rows /\ \A r \in Rows : DOMAIN g.cells[r] = Columns

\* self.copy(g) for another grid g
CopyOther ==
    \E g \in SourceGrids :
        /\ pc = "idle"
        /\ LET res == copy(g) IN grid' = res.grid /\ exc' = res.exc
        /\ call' = [op |-> "copy", other |-> g, same |-> FALSE]
        /\ UNCHANGED <<callVars, solverVars, spaceVars, fillVars, puzzleVars, caller_list>>

\* self.copy(self)
CopySelf ==
    /\ pc = "idle"
    /\ WellShaped(grid)
    /\ grid' = copy_of_self.grid
    /\ exc' = copy_of_self.exc
    /\ call' = [op |-> "copy", other |-> grid, same |-> TRUE]
    /\ UNCHANGED <<callVars, solverVars, spaceVars, fillVars, puzzleVars, caller_list>>

CopyNext == CopyOther \/ CopySelf \/ Reset \/ ClearRow

SpecCopy == Init /\ [][CopyNext]_vars

CopyDone == pc = "idle" /\ call.op = "copy"

\* Invariant I1 of a grid: no digit twice in a group, and the index sets hold
\* the digits of their groups
IndexInvariant(g) == GridValid(g) /\ IndexConsistent(g)

\* The grid g as it is after the call: self if g is self
OtherAfterCopy == IF call.same THEN grid ELSE call.other

\* C16: for every grid g satisfying the index invariant, after self.copy(g)
\* the cell matrix and the index sets of self equal those of g, g is
\* unchanged, and a second self.copy(g) yields the same as the first,
\* whatever self held before.
C16_CopyExactAndIdempotent ==
    (CopyDone /\ IndexInvariant(call.other)) =>
        /\ exc = NoException
        /\ grid = OtherAfterCopy
        /\ OtherAfterCopy = call.other
        /\ (IF call.same THEN copy_of_self ELSE copy(call.other)) = [grid |-> grid, exc |-> NoException]

\* The part of C16 that the code does keep: the copy of another grid
C16_CopyOfAnotherGrid ==
    (CopyDone /\ IndexInvariant(call.other) /\ ~call.same) =>
        /\ exc = NoException
        /\ grid = call.other
        /\ copy(call.other) = [grid |-> grid, exc |-> NoException]

---------------------------------------------------------------------------
(* Claims about the example solution of solve() *)

\* C17: whenever solve() returns a count >= 1, the grid it returns has no
\* blank cell and no repeated digit in a row, column or box, agrees with the
\* input grid on every cell that was filled at the call, and is the last
\* complete assignment the search reached: every leaf captures the grid as
\* it stands and nothing else touches the capture.  For a grid with a single
\* blank cell whose groups hold eight distinct digits the count is 1 and the
\* example has the missing digit in that cell.
C17_ExampleSolution ==
    /\ []((SolveReturned /\ ret[1] >= 1) =>
            /\ ret[2] # None
            /\ Blanks(ret[2][1]) = {}
            /\ GridValid(ret[2][1])
            /\ \A c \in (Columns \X Rows) \ Blanks(pre) :
                  ret[2][1].cells[c[2]][c[1]] = pre.cells[c[2]][c[1]]
            /\ ret[2] = solved_puzzle)
    /\ []((/\ SolveReturned
           /\ Cardinality(Blanks(pre)) = 1
           /\ \A c \in Blanks(pre) : Cardinality(FreeDigits(pre, c[1], c[2])) = 1) =>
            /\ ret[1] = 1
            /\ \A c \in Blanks(pre) : ret[2][1].cells[c[2]][c[1]] \in FreeDigits(pre, c[1], c[2]))
    /\ [][(call'.op = "solve" /\ exc' = NoException) =>
            IF pc = "enter" /\ index >= 81
            THEN solved_puzzle' = Some(grid)
            ELSE solved_puzzle' = solved_puzzle]_vars

\* Two solutions were found, and the example returned is the one captured
\* last
C17_Witness ==
    /\ SolveReturned
    /\ ret[1] >= 2
    /\ ret[2] # None
    /\ Blanks(ret[2][1]) = {}
    /\ Cardinality(Blanks(pre)) >= 2

\* A grid with a single blank cell was solved
C17_WitnessSingleBlank ==
    /\ SolveReturned
    /\ ret[1] = 1
    /\ Cardinality(Blanks(pre)) = 1
    /\ Blanks(ret[2][1]) = {}

---------------------------------------------------------------------------
(* Claims about what a whole-grid attempt starts from *)

\* Rows below row yy are blank
RowsBelowBlank(g, yy) == \A r \in Rows : r > yy => \A c \in Columns : g.cells[r][c] = 0

\* The column index sets hold only digits of rows 0..yy
ColumnSetsFromAbove(g, yy) ==
    \A c \in Columns :
        g.definite_values_per_column[c] \subseteq {g.cells[r][c] : r \in 0..yy}

\* C20: in every call of _attempt_populate_cells made by populate_cells on
\* an initially empty grid, the first and every retry, all rows below y are
\* blank while row y is being filled, and the column index sets consulted
\* for row y hold nothing but digits of rows 0..y of the current attempt.
C20_AttemptStartsOver ==
    (call.op = "populate_cells" /\ pc = "fill") =>
        /\ RowsBelowBlank(grid, row)
        /\ ColumnSetsFromAbove(grid, row)

\* What does hold: the first whole-grid attempt of a call on an empty grid
\* fills every row above blank rows
C20_FirstAttemptStartsOver ==
    (call.op = "populate_cells" /\ pc = "fill" /\ grid_tries = 1) =>
        /\ RowsBelowBlank(grid, row)
        /\ ColumnSetsFromAbove(grid, row)

---------------------------------------------------------------------------
(* generate_puzzle *)

num_tries == 30

\* random.shuffle(space_markers) draws from the random number stream too:
\* the states it may leave the stream in
NumShuffleStates == 1
ShuffleLeaves == 1..NumShuffleStates

\* generate_puzzle(solver_callback, required_spaces) is called
GeneratePuzzleCall(callback, n) ==
    /\ pc = "idle"
    /\ puzzle_args = None
    /\ puzzle_args' = Some([solver_callback |-> callback, required_spaces |-> n])
    /\ _try' = 0
    /\ puzzle_ret' = None
    /\ call' = [op |-> "generate_puzzle"]
    /\ exc' = NoException
    /\ UNCHANGED <<grid, callVars, solverVars, spaceVars, fillVars, caller_list>>

\* generate_puzzle is between two of the calls it makes
PuzzleRunning == puzzle_args # None /\ puzzle_ret = None /\ pc = "idle"

\* for _try in range(num_tries): self.reset(); with the range used up,
\* return False
GenerateLoop ==
    /\ PuzzleRunning
    /\ call.op = "generate_puzzle"
    /\ IF _try < num_tries
       THEN /\ grid' = reset
            /\ call' = [op |-> "reset"]
            /\ UNCHANGED puzzle_ret
       ELSE /\ puzzle_ret' = Some(FALSE)
            /\ UNCHANGED <<grid, call>>
    /\ UNCHANGED <<exc, callVars, solverVars, spaceVars, fillVars, caller_list, puzzle_args, _try>>

\* try: self.populate_cells()
GeneratePopulate ==
    /\ PuzzleRunning
    /\ call.op = "reset"
    /\ PopulateCall

\* except GridException: print("Could not populate cells"); break, and so
\* return False
GenerateBreak ==
    /\ PuzzleRunning
    /\ call.op = "populate_cells"
    /\ exc # NoException
    /\ puzzle_ret' = Some(FALSE)
    /\ call' = [op |-> "generate_puzzle"]
    /\ exc' = NoException
    /\ UNCHANGED <<grid, callVars, solverVars, spaceVars, fillVars, caller_list, puzzle_args, _try>>

\* try: self.add_spaces(solver_callback, required_spaces)
GenerateAddSpaces ==
    /\ PuzzleRunning
    /\ call.op = "populate_cells"
    /\ exc = NoException
    /\ \E cells \in Shuffles :
          AddSpacesCall(puzzle_args[1].solver_callback, puzzle_args[1].required_spaces, cells)
    /\ rng' \in ShuffleLeaves

\* except GridException: print("Failed to add spaces ..."), and on to the
\* next _try
GenerateRetry ==
    /\ PuzzleRunning
    /\ call.op = "add_spaces"
    /\ exc # NoException
    /\ _try' = _try + 1
    /\ call' = [op |-> "generate_puzzle"]
    /\ exc' = NoException
    /\ UNCHANGED <<grid, callVars, solverVars, spaceVars, fillVars, caller_list, puzzle_args, puzzle_ret>>

\* else: return True
GenerateSuccess ==
    /\ PuzzleRunning
    /\ call.op = "add_spaces"
    /\ exc = NoException
    /\ puzzle_ret' = Some(TRUE)
    /\ call' = [op |-> "generate_puzzle"]
    /\ UNCHANGED <<grid, exc, callVars, solverVars, spaceVars, fillVars, caller_list, puzzle_args, _try>>

GeneratePuzzleSteps ==
    \/ GenerateLoop
    \/ GeneratePopulate
    \/ GenerateBreak
    \/ GenerateAddSpaces
    \/ GenerateRetry
    \/ GenerateSuccess
    \/ PopulateSteps
    \/ AddSpacesSteps

---------------------------------------------------------------------------
(* A caller that has a puzzle generated on a new grid *)

\* The seeds of the random number stream
NumPuzzleSeeds == 2

\* The callback and the required_spaces the caller passes
PuzzleCalls == {<<{}, 4>>, <<{}, 5>>, <<{}, 82>>, <<{<<0, 0>>}, 81>>}

GenerateInit ==
    /\ PopulateInit
    /\ rng < NumPuzzleSeeds

GeneratePuzzle ==
    \E a \in PuzzleCalls :
        /\ call.op = "__init__"
        /\ GeneratePuzzleCall(a[1], a[2])

GenerateNext == GeneratePuzzle \/ GeneratePuzzleSteps

SpecGenerate == GenerateInit /\ [][GenerateNext]_vars

---------------------------------------------------------------------------
(* Claims about generate_puzzle *)

\* generate_puzzle has returned
PuzzleDone == puzzle_args # None /\ puzzle_ret # None

\* The grid holds exactly n blank cells in a configuration the callback
\* approved
PuzzleGenerated ==
    /\ Cardinality(Blanks(grid)) = puzzle_args[1].required_spaces
    /\ approved = Some(grid.cells)

\* C18: whenever generate_puzzle(oracle, n) returns True, the last add_spaces
\* call returned True and the grid holds exactly n blank cells in a
\* configuration the oracle approved; it never returns True after an
\* add_spaces call that returned False.
C18_TrueOnlyIfGenerated ==
    (PuzzleDone /\ puzzle_ret = Some(TRUE)) =>
        /\ ret = Some(TRUE)
        /\ PuzzleGenerated

\* What does hold: True is returned only after an add_spaces call that
\* raised nothing, and if that call returned True the puzzle is there
C18_TrueAfterQuietAddSpaces ==
    (PuzzleDone /\ puzzle_ret = Some(TRUE)) =>
        /\ ret \in {Some(TRUE), Some(FALSE)}
        /\ ret = Some(TRUE) => PuzzleGenerated

\* C19: when populate_cells or add_spaces raises inside generate_puzzle, the
\* grid is reset and the pipeline run again; generate_puzzle gives up and
\* returns False only after 30 tries have failed, and no GridException
\* reaches its caller.
C19_GivesUpAfterThirtyTries ==
    /\ PuzzleDone => exc = NoException
    /\ (PuzzleDone /\ puzzle_ret = Some(FALSE)) => _try = num_tries

\* What does hold: no GridException reaches the caller, a failure of
\* add_spaces is retried, and False is returned after 30 such failures or
\* after the first populate_cells that ran out of whole-grid attempts
C19_GivesUpOrBreaks ==
    /\ PuzzleDone => exc = NoException
    /\ (PuzzleDone /\ puzzle_ret = Some(FALSE)) =>
          \/ _try = num_tries
          \/ redo_count = max_redos /\ _try < num_tries

---------------------------------------------------------------------------
(* Claims about the order of the search of add_spaces *)

\* The box of the marker of the innermost call
MarkerBox == get_box_coordinates(Marker.x, Marker.y)

\* C21: at each marker the include branch is tried before the exclude
\* branch; the callback is asked only after the marker's cell has been
\* blanked and only when the blanks of its box do not exceed avg + 1, and
\* always before any deeper recursion or further blanking; the search
\* recurses into (index + 1, space_count + 1) only after the callback
\* answered True, and it returns at the first success without exploring the
\* exclude branch.
C21_OracleProtocol ==
    /\ []((call.op = "add_spaces" /\ pc = "callback") =>
            /\ Top.i = 0
            /\ grid.cells[Marker.y][Marker.x] = 0
            /\ BlanksInBox(grid, MarkerBox[1], MarkerBox[2])
                  <= avg_spaces_per_box(required_spaces) + 1)
    /\ [][(call.op = "add_spaces" /\ pc = "callback") =>
            /\ grid'.cells[Marker.y][Marker.x] # 0 \/ grid' = grid
            /\ Blanks(grid') \subseteq Blanks(grid)]_vars
    /\ [][(call.op = "add_spaces" /\ call'.op = "add_spaces" /\ pc' = "enter" /\ stack' # <<>>) =>
            IF space_count' = stack'[Len(stack')].space_count + 1
            THEN /\ pc = "callback"
                 /\ Callback(grid)
                 /\ stack'[Len(stack')].i = 0
                 /\ index' = stack'[Len(stack')].index + 1
                 /\ grid' = grid
            ELSE /\ stack'[Len(stack')].i = 1
                 /\ space_count' = stack'[Len(stack')].space_count
                 /\ index' = stack'[Len(stack')].index + 1
                 /\ grid'.cells[space_markers[index'].y][space_markers[index'].x] # 0
                 /\ \/ pc = "callback" /\ ~Callback(grid)
                    \/ pc = "return" /\ ret = Some(FALSE) /\ Top.i = 0
                    \/ /\ pc = "enter"
                       /\ BlanksInBox(grid, get_box_coordinates(space_markers[index'].x,
                                                                 space_markers[index'].y)[1],
                                      get_box_coordinates(space_markers[index'].x,
                                                          space_markers[index'].y)[2]) + 1
                             > avg_spaces_per_box(required_spaces) + 1]_vars
    /\ [][(call.op = "add_spaces" /\ pc = "return" /\ ret = Some(TRUE) /\ stack # <<>>) =>
            /\ stack' = Pop
            /\ pc' = "return"
            /\ ret' = ret
            /\ grid' = grid]_vars

\* The callback answered True for a blanked marker after it had refused an
\* earlier one, whose exclude branch the search is in
C21_Witness ==
    /\ call.op = "add_spaces"
    /\ pc = "enter"
    /\ Len(stack) >= 2
    /\ Top.i = 0
    /\ space_count = Top.space_count + 1
    /\ stack[1].i = 1
    /\ <<space_markers[1].x, space_markers[1].y>> \in solver_callback[1]
    /\ approved = Some(grid.cells)

\* A success travels up through an include branch
C21_WitnessFirstSuccess ==
    /\ call.op = "add_spaces"
    /\ pc = "return"
    /\ ret = Some(TRUE)
    /\ stack # <<>>
    /\ Top.i = 0

---------------------------------------------------------------------------
(* Claims about the table of candidates of the solver *)

\* The table holds for every blank cell the digits its row, column and box
\* leave free, and nothing for a filled cell
OptionsMirror(opts, g) ==
    \A yy \in Rows : \A x \in Columns :
        opts[yy][x] = IF g.cells[yy][x] = 0 THEN FreeDigits(g, x, yy) ELSE {}

\* C22: at every point during and after solve() the options table of the
\* solver holds for every blank cell exactly the digits still consistent
\* with the row, column and box of the cell as the grid stands, and the
\* empty list for every filled cell.
C22_OptionsMirrorGrid ==
    options # None => OptionsMirror(options[1], grid)

\* What does hold: the table mirrors the grid when the solver is built, and
\* the entry of a filled cell is empty at every point
C22_OptionsAtConstruction ==
    /\ (options # None /\ call.op = "BruteForceSolver") => OptionsMirror(options[1], grid)
    /\ options # None =>
          \A yy \in Rows : \A x \in Columns : grid.cells[yy][x] # 0 => options[1][yy][x] = {}

---------------------------------------------------------------------------
(* Claims about clear_row *)

\* The digits row yy holds in the columns of box column bx
RowDigitsInBox(g, yy, bx) == {g.cells[yy][x] : x \in {c \in Columns : c \div BOX_SIZE = bx}} \ {0}

\* C23: clear_row(y) on a grid satisfying the index invariant blanks every
\* cell of row y, empties the row set of y, removes from each column set and
\* each box set exactly the digits row y held in that column or box, leaves
\* every cell of every other row unchanged, and the index invariant holds
\* afterwards.
C23_ClearRowFrame ==
    [][(call'.op = "clear_row" /\ call'.y \in Rows /\ IndexInvariant(grid)) =>
          /\ exc' = NoException
          /\ \A x \in Columns : grid'.cells[call'.y][x] = 0
          /\ grid'.definite_values_per_row[call'.y] = {}
          /\ \A r \in Rows \ {call'.y} :
                /\ grid'.cells[r] = grid.cells[r]
                /\ grid'.definite_values_per_row[r] = grid.definite_values_per_row[r]
          /\ \A x \in Columns :
                grid'.definite_values_per_column[x] =
                    grid.definite_values_per_column[x] \ {grid.cells[call'.y][x]}
          /\ \A by \in BoxRows : \A bx \in BoxColumns :
                grid'.definite_values_per_box[by][bx] =
                    IF by = call'.y \div BOX_SIZE
                    THEN grid.definite_values_per_box[by][bx] \ RowDigitsInBox(grid, call'.y, bx)
                    ELSE grid.definite_values_per_box[by][bx]
          /\ IndexInvariant(grid')]_vars

\* Row 4 of a full grid has been cleared: every column set and every box
\* set of the middle band has lost the digits of that row
C23_Witness ==
    /\ call.op = "clear_row"
    /\ call.y = 4
    /\ exc = NoException
    /\ \A x \in Columns : grid.cells[4][x] = 0
    /\ \A r \in Rows \ {4} : \A x \in Columns : grid.cells[r][x] # 0
    /\ \A x \in Columns : Cardinality(grid.definite_values_per_column[x]) = 8
    /\ \A bx \in BoxColumns : Cardinality(grid.definite_values_per_box[1][bx]) = 6
    /\ IndexInvariant(grid)

---------------------------------------------------------------------------
(* Claims about the cap of blanks per box during the search *)

\* _add_spaces_impl is being entered in a search that began on a full grid
ImplEntered == call.op = "add_spaces" /\ pc = "enter" /\ Blanks(pre) = {}

\* The cells <<x, y>> of box (bx, by)
CellsOfBox(bx, by) ==
    ((BOX_SIZE * bx)..(BOX_SIZE * bx + BOX_SIZE - 1)) \X ((BOX_SIZE * by)..(BOX_SIZE * by + BOX_SIZE - 1))

\* C24: starting from a fully populated grid, at every entry to
\* _add_spaces_impl every box has at most avg + 1 blank cells and the grid
\* has exactly space_count blank cells; hence a base case fails the
\* distribution check only for a box below avg - 1 or for fewer than 5
\* boxes at exactly avg.
C24_BoxCapThroughout ==
    ImplEntered =>
        LET avg == avg_spaces_per_box(required_spaces)
            in_box == [b \in BoxColumns \X BoxRows |->
                          Cardinality({c \in CellsOfBox(b[1], b[2]) : grid.cells[c[2]][c[1]] = 0})]
        IN  /\ \A b \in BoxColumns \X BoxRows : in_box[b] <= avg + 1
            /\ Cardinality(Blanks(grid)) = space_count
            /\ (/\ EnoughSpaces(space_count, required_spaces)
                /\ ~check_space_distribution(grid, required_spaces, min_spaces_per_box,
                                             max_spaces_per_box)) =>
                  \/ \E b \in BoxColumns \X BoxRows : in_box[b] < avg - 1
                  \/ Cardinality({b \in BoxColumns \X BoxRows : in_box[b] = avg}) < 5

\* An exclude branch is entered after its marker's cell was restored, with a
\* box at the cap
C24_Witness ==
    /\ ImplEntered
    /\ stack # <<>>
    /\ Top.i = 1
    /\ space_count >= 2
    /\ \E b \in BoxColumns \X BoxRows :
          BlanksInBox(grid, b[1], b[2]) = avg_spaces_per_box(required_spaces) + 1

\* A base case fails the distribution check
C24_WitnessFailure ==
    /\ ImplEntered
    /\ EnoughSpaces(space_count, required_spaces)
    /\ ~check_space_distribution(grid, required_spaces, min_spaces_per_box, max_spaces_per_box)
    /\ required_spaces = 9

---------------------------------------------------------------------------
(* A caller that asks for numbers of spaces no balanced grid has *)

\* The values of required_spaces the caller asks for, each with a remainder
\* of 5 or more when divided by the number of boxes
UnbalancedCounts == {5, 14, 50, 80}

AddUnbalancedSpaces ==
    \E callback \in Callbacks : \E n \in UnbalancedCounts : \E cells \in Shuffles :
        /\ call.op = "populate_from_list"
        /\ AddSpacesCall(callback, n, cells)
        /\ UNCHANGED rng

UnbalancedNext == Repopulate \/ AddUnbalancedSpaces \/ AddSpacesSteps

SpecUnbalanced == SpacesInit /\ [][UnbalancedNext]_vars

\* C25: for every fully populated grid, every callback and every shuffle
\* order, add_spaces(callback, n) with n mod 9 >= 5 never returns True: no
\* base case passes the distribution check, no configuration is kept, and
\* the call ends by returning False or by raising
\* TooManyFailedConfigurations.
C25_UnbalancedNeverSucceeds ==
    (/\ call.op = "add_spaces"
     /\ Blanks(pre) = {}
     /\ required_spaces >= 0
     /\ required_spaces % (NUM_BOXES_X * NUM_BOXES_Y) >= 5) =>
        /\ ret # Some(TRUE)
        /\ grid_with_spaces = None
        /\ (pc = "enter" /\ EnoughSpaces(space_count, required_spaces)) =>
              ~check_space_distribution(grid, required_spaces, min_spaces_per_box,
                                        max_spaces_per_box)
        /\ pc = "idle" =>
              \/ exc = NoException /\ ret = Some(FALSE)
              \/ exc = TooManyFailed /\ ret = None

\* The search for 80 spaces has tried every configuration and returned False
C25_Witness ==
    /\ AddSpacesDone
    /\ required_spaces = 80
    /\ exc = NoException
    /\ ret = Some(FALSE)
    /\ space_failure_count >= 1

\* The search for 50 spaces was given up after 500 failed configurations
C25_WitnessRaise ==
    /\ AddSpacesDone
    /\ required_spaces = 50
    /\ exc = TooManyFailed
    /\ space_failure_count = MAX_FAILED_SPACE_CONFIGURATIONS

---------------------------------------------------------------------------
(* A caller that keeps the list it passed to populate_from_list *)

\* What the caller's list holds: the cell matrix of the grid while the grid
\* uses that very list (self.cells = hard_coded), else what it held when
\* the grid let go of it and what the caller wrote since
CallerMatrix == IF caller_list[1].is_cells THEN grid.cells ELSE caller_list[1].rows

\* The lists the caller builds: the solved sample, whole or with blanks
OwnedMatrices == {Masked({}), Masked({<<0, 0>>}), Masked({<<0, 0>>, <<1, 0>>})}

\* The entries the caller writes into its list afterwards: <<x, y, val>>
CallerEdits == {<<0, 0, 5>>, <<4, 4, 0>>}

\* m = [...]; grid.populate_from_list(m): self.reset() gives the grid a new
\* matrix, self.cells = hard_coded replaces it by the caller's list
OwnerPopulate ==
    \E m \in OwnedMatrices :
        /\ pc = "idle"
        /\ options = None
        /\ caller_list = None
        /\ LET r == populate_from_list(grid, m)
           IN  grid' = r.grid /\ exc' = r.exc
        /\ caller_list' = Some([rows |-> m, is_cells |-> TRUE])
        /\ call' = [op |-> "populate_from_list", hard_coded |-> m]
        /\ pre' = grid
        /\ UNCHANGED <<ret, pc, index, stack, solverVars, spaceVars, fillVars, puzzleVars>>

\* grid.reset(): self.cells is a new matrix, the caller's list stays as it is
OwnerReset ==
    /\ pc = "idle"
    /\ options = None
    /\ caller_list # None
    /\ grid' = reset
    /\ caller_list' = Some([rows |-> CallerMatrix, is_cells |-> FALSE])
    /\ call' = [op |-> "reset"]
    /\ exc' = NoException
    /\ UNCHANGED <<callVars, solverVars, spaceVars, fillVars, puzzleVars>>

\* The set_value calls the caller makes on the grid afterwards: <<x, y, val>>
OwnerWrites == {<<0, 0, 0>>, <<0, 0, 8>>, <<8, 8, 0>>}

\* grid.set_value(x, y, val) by the caller
OwnerSetValue ==
    \E a \in OwnerWrites :
        /\ pc = "idle"
        /\ options = None
        /\ caller_list # None
        /\ LET r == set_value(grid, a[1], a[2], a[3])
           IN  grid' = r.grid /\ exc' = r.exc
        /\ call' = [op |-> "set_value", x |-> a[1], y |-> a[2], val |-> a[3]]
        /\ UNCHANGED <<callVars, solverVars, spaceVars, fillVars, puzzleVars, caller_list>>

\* grid.clear_row(4) by the caller
OwnerClearRow ==
    /\ pc = "idle"
    /\ options = None
    /\ caller_list # None
    /\ LET r == clear_row(grid, 4)
       IN  grid' = r.grid /\ exc' = r.exc
    /\ call' = [op |-> "clear_row", y |-> 4]
    /\ UNCHANGED <<callVars, solverVars, spaceVars, fillVars, puzzleVars, caller_list>>

\* m[y][x] = val by the caller: a write into the cell matrix of the grid
\* while the grid uses the list
OwnerEdit ==
    \E e \in CallerEdits :
        /\ pc = "idle"
        /\ options = None
        /\ caller_list # None
        /\ IF caller_list[1].is_cells
           THEN /\ grid' = [grid EXCEPT !.cells[e[2]][e[1]] = e[3]]
                /\ UNCHANGED caller_list
           ELSE /\ caller_list' = Some([caller_list[1] EXCEPT !.rows[e[2]][e[1]] = e[3]])
                /\ UNCHANGED grid
        /\ call' = [op |-> "edit", x |-> e[1], y |-> e[2], val |-> e[3]]
        /\ exc' = NoException
        /\ UNCHANGED <<callVars, solverVars, spaceVars, fillVars, puzzleVars>>

\* solver = BruteForceSolver(grid); solver.solve()
OwnerNewSolver ==
    /\ caller_list # None
    /\ call.op # "del"
    /\ Cardinality(Blanks(grid)) <= MaxBlanks
    /\ NewSolver

OwnerNext ==
    \/ OwnerPopulate
    \/ OwnerReset
    \/ OwnerSetValue
    \/ OwnerClearRow
    \/ OwnerEdit
    \/ OwnerNewSolver
    \/ SolveOnce
    \/ SolveSteps
    \/ DropSolver

SpecOwner == Init /\ [][OwnerNext]_vars

---------------------------------------------------------------------------
(* Claims about the list passed to populate_from_list *)

\* What get_value returns for every cell
Readings(g) == [yy \in Rows |-> [x \in Columns |-> get_value(g, x, yy)]]

\* C26: after populate_from_list(m) has returned, no later mutation of the
\* grid (set_value, clear_row, the writes of the solver) changes the
\* caller's list m, and no later change of m changes what get_value
\* returns.
C26_GridOwnsItsMatrix ==
    [][(caller_list # None /\ caller_list' # None) =>
          IF call'.op = "edit"
          THEN Readings(grid') = Readings(grid)
          ELSE CallerMatrix' = CallerMatrix]_vars

\* What does hold: once reset() has given the grid a matrix of its own, the
\* grid and the caller's list no longer touch each other
C26_OwnMatrixAfterReset ==
    [][(caller_list # None /\ caller_list' # None /\ ~caller_list[1].is_cells) =>
          IF call'.op = "edit"
          THEN Readings(grid') = Readings(grid)
          ELSE CallerMatrix' = CallerMatrix]_vars

---------------------------------------------------------------------------
(* A caller that keeps one solver and changes the grid between its calls *)
(* of solve()                                                             *)

\* The cells <<x, y>> the holder of the solver blanks and pencils: two cells
\* of row 0 and the cell of column 0 that holds the digit of the second
ResolveCells == {<<0, 0>>, <<1, 0>>, <<0, 7>>}

\* grid.set_value(x, y, 0) on a filled cell, between two calls
HolderBlank ==
    /\ pc = "idle"
    /\ \E c \in ResolveCells :
          /\ grid.cells[c[2]][c[1]] # 0
          /\ grid' = set_value(grid, c[1], c[2], 0).grid
          /\ call' = [op |-> "set_value", x |-> c[1], y |-> c[2], val |-> 0]
    /\ exc' = NoException
    /\ UNCHANGED <<callVars, solverVars, spaceVars, fillVars, puzzleVars, caller_list>>

\* grid.set_value(x, y, val) on a blank cell, val a digit free for it
HolderPencil ==
    /\ pc = "idle"
    /\ \E c \in ResolveCells : \E val \in get_possible_values(grid, c[1], c[2])[2] :
          /\ grid' = set_value(grid, c[1], c[2], val).grid
          /\ call' = [op |-> "set_value", x |-> c[1], y |-> c[2], val |-> val]
    /\ exc' = NoException
    /\ UNCHANGED <<callVars, solverVars, spaceVars, fillVars, puzzleVars, caller_list>>

\* solver.solve(), the first time or again
SolveAgain == options # None /\ SolveCall

ResolveNext == HolderBlank \/ HolderPencil \/ NewSolver \/ SolveAgain \/ SolveSteps

SpecResolve == SolverInit /\ [][ResolveNext]_vars

\* C27: for any sequence of solve() calls on one BruteForceSolver
\* interleaved with mutations of its grid, a call that returns count 0
\* returns None as the example grid, and a call that returns count >= 1
\* returns an example that has no blank and extends the grid as it is at
\* that call.
C27_ExampleOfThisCall ==
    SolveReturned =>
        /\ ret[1] = 0 => ret[2] = None
        /\ ret[1] >= 1 =>
              /\ ret[2] # None
              /\ Blanks(ret[2][1]) = {}
              /\ \A c \in (Columns \X Rows) \ Blanks(pre) :
                    ret[2][1].cells[c[2]][c[1]] = pre.cells[c[2]][c[1]]

\* What does hold: a call that finds a solution returns an example of its
\* own
C27_ExampleWhenFound ==
    (SolveReturned /\ ret[1] >= 1) =>
        /\ ret[2] # None
        /\ Blanks(ret[2][1]) = {}
        /\ GridValid(ret[2][1])
        /\ \A c \in (Columns \X Rows) \ Blanks(pre) :
              ret[2][1].cells[c[2]][c[1]] = pre.cells[c[2]][c[1]]

=============================================================================
